---- MODULE Spec2Model ----
(***************************************************************************)
(* Model of the log-analysis core of log-analysis-agents:                  *)
(*   LogParser.normalize_message / parse_log     (app/agents/log_parser.py)*)
(*   JSONParserValidator.parse_and_validate (app/agents/json_parser_validator.py) *)
(*   group_problems_by_frequency                 (app/api/endpoints.py)    *)
(*   group_by_normalized_message                 (app/agents/log_parser.py)*)
(*   ErrorClassifier.classify_errors       (app/agents/error_classifier.py)*)
(*   analyze_log                                 (app/api/endpoints.py)    *)
(*                                                                         *)
(* Text is modelled as a sequence of fragments; the string a sequence      *)
(* stands for is its fragments joined by one space (log messages) or       *)
(* written one after the other (advisory replies).  Every fragment is the  *)
(* literal text it stands for, except that Cyrillic text is written in     *)
(* Latin transliteration (the module is ASCII); the transliterations are   *)
(* listed where the fragments are introduced.  Where the code measures a   *)
(* text (len, a slice) the transliteration has one Latin letter for each   *)
(* Cyrillic letter ("w" for sha), so that Len is the length of the text.   *)
(***************************************************************************)
EXTENDS Naturals, Integers, Sequences, FiniteSets, TLC

VARIABLES
    \* ---- LogParser.normalize_message, applied twice to one message
    nmsg,        \* the message given to normalize_message
    nout1,       \* normalize_message(nmsg)
    nout2,       \* normalize_message(nout1)
    npc,         \* "in" | "once" | "twice"
    \* ---- LogParser.parse_log, one loop iteration per line
    plines,      \* the lines consumed so far (after line.strip())
    entries,     \* the local list `entries`
    last_entry,  \* the local `last_entry` (NoEntry when None)
    ppc,         \* "loop" | "done" (returned) | "raised" (strptime raised)
    \* ---- group_problems_by_frequency
    problems,    \* the argument, a list of ProblemReport
    merged,      \* the returned list
    mpc,         \* "in" | "done"
    \* ---- JSONParserValidator.parse_and_validate, one step per strategy
    rcfg,           \* how the reply was written (see ReplyOf)
    reply,          \* the argument `response`
    clean_response, \* the local clean_response (<<>> is "")
    rresult,        \* the returned list
    rstrategy,      \* the strategy whose list was returned
    rpc,            \* "clean" | "strict" | "repair" | "salvage" | "markdown" |
                    \* "done" (returned) | "raised" (an exception left the function)
    \* ---- group_by_normalized_message and classify_errors
    centries,       \* the argument `entries`, as runs
    grouped,        \* grouped_entries
    classified,     \* the list of ClassifiedError
    cpc,            \* "in" | "grouped" | "classified"
    \* ---- analyze_log, one entry per request
    areq,           \* what the request is given (see Input)
    configured,     \* the credentials of the advisory client are set
    apc,            \* "read" | "parse" | "await" | "done" | "failed"
    aclassified,    \* the local `classified`
    acalls,         \* how often get_completion was called
    avalidated,     \* `validated` before the rank correlation
    acorrelated,    \* `validated` after the rank correlation
    areport,        \* the report returned
    astatus,        \* the HTTP status of the answer, 0 while there is none
    acsv,           \* the name of the CSV file of the request
    report_files,   \* the files of app/reports
    aoverlap        \* a request took a step while the other was between its awaits

nvars == <<nmsg, nout1, nout2, npc>>
pvars == <<plines, entries, last_entry, ppc>>
mvars == <<problems, merged, mpc>>
cvars == <<centries, grouped, classified, cpc>>
rvars == <<rcfg, reply, clean_response, rresult, rstrategy, rpc>>
avars == <<areq, configured, apc, aclassified, acalls, avalidated, acorrelated, areport,
           astatus, acsv, report_files, aoverlap>>
vars  == <<nmsg, nout1, nout2, npc, plines, entries, last_entry, ppc,
           problems, merged, mpc, rcfg, reply, clean_response, rresult, rstrategy, rpc,
           centries, grouped, classified, cpc,
           areq, configured, apc, aclassified, acalls, avalidated, acorrelated, areport,
           astatus, acsv, report_files, aoverlap>>

\* LogEntry(timestamp, level, thread, class_name, message); the message is a
\* sequence of fragments joined by single spaces
LogEntry(ts, level, thread, class_name, message) ==
    [timestamp |-> ts, level |-> level, thread |-> thread,
     class_name |-> class_name, message |-> message]
NoEntry == LogEntry("", "", "", "", <<>>)      \* last_entry = None

(***************************************************************************)
(* Generic helpers on sequences.                                           *)
(***************************************************************************)
RECURSIVE SeqsUpTo(_, _)
SeqsUpTo(S, n) ==
    IF n = 0 THEN {<<>>}
    ELSE LET shorter == SeqsUpTo(S, n - 1)
         IN  shorter \cup {Append(s, x) : s \in {t \in shorter : Len(t) = n - 1}, x \in S}

MapSeq(f(_), s) == [i \in 1..Len(s) |-> f(s[i])]

\* index of the first element of s at or after position from that satisfies P, 0 if none
FirstIdx(P(_), s, from) ==
    IF \E i \in from..Len(s) : P(s[i])
    THEN CHOOSE i \in from..Len(s) : P(s[i]) /\ \A j \in from..(i - 1) : ~P(s[j])
    ELSE 0

(***************************************************************************)
(* LogParser.normalize_message                                             *)
(*                                                                         *)
(* A message is a sequence of fragments joined by single spaces.  The      *)
(* fragments and what each regular expression of the function does to them *)
(* are tabulated below; no expression matches across a space except the    *)
(* ones modelled on the whole sequence.                                    *)
(*   GENERIC_ERR  stands for the Russian sentence "An error occurred"      *)
(*                (l.198), 16 characters, letter for letter with "w" for   *)
(*                the letter sha                                           *)
(*   ERR_IN_XRUN  stands for the Russian "Error in X.run" (l.202), 14      *)
(*                characters, written the same way                         *)
(***************************************************************************)
UUID_RAW      == "123e4567-e89b-12d3-a456-426614174000"
HASH_RAW      == "abcdefabcdefabcdefabcdefabcdefab"
HASH_RAW_DOT  == "abcdefabcdefabcdefabcdefabcdefab."
GENERIC_ERR   == "Proizowla owibka"
ERR_IN_XRUN   == "Owibka v X.run"
ERR_IN_ZGO    == "Owibka v Z.go"
AT_XRUN       == "at c.X.run(X.java)"
PIPED         == "failed | retry"
LONG_MSG      == "Connection to the billing gateway was refused while the nightly settlement batch was being posted to the ledger service"
AT_ZGO        == "at d.Z.go(Z.java)"
WAS_SET       == "was set to the object returned by Configuration.getVersion()"
KEY_ERR       == "An error occurred when calling original method for key"
ROLLED_BACK   == "Transactions will be rolled back."
ROLLING_BACK  == "Rolling back transaction for key"
IDEMPOTENT    == "Idempotent call error (rolling back transaction)"

\* fragments that end with ':' and the same fragment without it
EndsWithColon(t) == t \in {"org.a.B:", "failed:"}
DropColon(t) == CASE t = "org.a.B:" -> "org.a.B" [] t = "failed:" -> "failed" [] OTHER -> t
StartsWithAt(t) == t \in {AT_XRUN, AT_ZGO}
HasHashMask(t) == t \in {"<HASH>", "<HASH>."}

\* re.match(r'^(org\.[\w\.]+):', message): group(1), "" when there is no match
Preserved(m) == IF Len(m) > 0 /\ m[1] = "org.a.B:" THEN "org.a.B" ELSE ""

\* re.sub(r'[a-fA-F0-9\-]{36}', '<UUID>', message)
MaskUuid(t) == IF t = UUID_RAW THEN "<UUID>" ELSE t

\* re.sub(r'\d{8,}', '<NUM>', message)
MaskNum(t) ==
    CASE t = "12345678"          -> "<NUM>"
      [] t = "user_id=12345678"  -> "user_id=<NUM>"
      [] t = UUID_RAW            -> "123e4567-e89b-12d3-a456-<NUM>"
      [] OTHER                   -> t

\* re.sub(r'[a-fA-F0-9]{32,}', '<HASH>', message)
MaskHash(t) ==
    CASE t = HASH_RAW     -> "<HASH>"
      [] t = HASH_RAW_DOT -> "<HASH>."
      [] OTHER            -> t

\* re.sub(r'([a-zA-Z0-9_-]*id[a-zA-Z0-9_-]*)\s*=\s*[a-zA-Z0-9_-]+', r'\1=<ID>', ...)
MaskId(t) ==
    CASE t \in {"user_id=123", "user_id=456", "user_id=12345678"} -> "user_id=<ID>"
      [] OTHER -> t

\* re.sub(r'conversation/[^/\s]+', 'conversation/<ID>', message)
MaskConversation(t) ==
    IF t \in {"conversation/abc", "conversation/<ID>"} THEN "conversation/<ID>" ELSE t

\* re.sub(r'(?:DefaultObjectWrapper|Configuration)\.incompatibleImprovements', ...)
FoldWrapper(t) ==
    CASE t = "Configuration.incompatibleImprovements" -> "incompatibleImprovements"
      [] t = "Configuration.Configuration.incompatibleImprovements"
             -> "Configuration.incompatibleImprovements"
      [] OTHER -> t

\* re.sub(r'(?i)(?:defaultobjectwrapper\.|configuration\.)?incompatibleimprovements
\*          \s+was\s+set\s+...configuration\.getversion\(\)', 'incompatibleImprovements', ...)
RECURSIVE FoldWasSet(_)
FoldWasSet(m) ==
    IF Len(m) = 0 THEN <<>>
    ELSE IF Len(m) >= 2 /\ m[2] = WAS_SET
            /\ m[1] \in {"incompatibleImprovements", "Configuration.incompatibleImprovements"}
         THEN <<"incompatibleImprovements">> \o FoldWasSet(SubSeq(m, 3, Len(m)))
         ELSE IF Len(m) >= 2 /\ m[2] = WAS_SET
                 /\ m[1] = "Configuration.Configuration.incompatibleImprovements"
              THEN <<"Configuration.incompatibleImprovements">> \o FoldWasSet(SubSeq(m, 3, Len(m)))
              ELSE <<m[1]>> \o FoldWasSet(Tail(m))

\* re.sub(r':\s+at\b.*', '', message): everything from the first ':' that is
\* followed by white space and the word "at" is cut (the ':' included)
CutStack(m) ==
    LET hit == {i \in 1..(Len(m) - 1) : EndsWithColon(m[i]) /\ StartsWithAt(m[i + 1])}
    IN  IF hit = {} THEN m
        ELSE LET i == CHOOSE i \in hit : \A j \in hit : i <= j
             IN  Append(SubSeq(m, 1, i - 1), DropColon(m[i]))

\* re.sub(r'An error occurred when calling original method for key\s*=?.*<HASH>.*?
\*          Transactions will be rolled back\.', 'Idempotent call error ...', ...)
\* greedy .* : the last <HASH> that still has the closing sentence after it;
\* lazy .*?  : the first closing sentence after that <HASH>
RECURSIVE FoldKeyError(_)
FoldKeyError(m) ==
    LET starts == {i \in 1..Len(m) : m[i] = KEY_ERR
                      /\ \E j \in (i + 1)..Len(m) : HasHashMask(m[j])
                           /\ \E k \in (j + 1)..Len(m) : m[k] = ROLLED_BACK}
    IN  IF starts = {} THEN m
        ELSE LET i == CHOOSE i \in starts : \A x \in starts : i <= x
                 hs == {j \in (i + 1)..Len(m) : HasHashMask(m[j])
                           /\ \E k \in (j + 1)..Len(m) : m[k] = ROLLED_BACK}
                 j == CHOOSE j \in hs : \A x \in hs : x <= j
                 k == FirstIdx(LAMBDA t : t = ROLLED_BACK, m, j + 1)
             IN  SubSeq(m, 1, i - 1) \o <<IDEMPOTENT>> \o FoldKeyError(SubSeq(m, k + 1, Len(m)))

\* re.sub(r'Rolling back transaction for key\s*<HASH>\.', 'Idempotent call error ...', ...)
RECURSIVE FoldRollingBack(_)
FoldRollingBack(m) ==
    IF Len(m) = 0 THEN <<>>
    ELSE IF Len(m) >= 2 /\ m[1] = ROLLING_BACK /\ m[2] = "<HASH>."
         THEN <<IDEMPOTENT>> \o FoldRollingBack(SubSeq(m, 3, Len(m)))
         ELSE <<m[1]>> \o FoldRollingBack(Tail(m))

\* re.search(r'Proizowla owibka.*?at\s+([\w.$]+)\.([\w$]+)\(', message):
\* the whole message becomes "Owibka v <Class>.<method>" of the first frame
\* after the first occurrence of the sentence
Generalize(m) ==
    LET i == FirstIdx(LAMBDA t : t = GENERIC_ERR, m, 1)
        j == IF i = 0 THEN 0 ELSE FirstIdx(StartsWithAt, m, i + 1)
    IN  IF j = 0 THEN m
        ELSE IF m[j] = AT_XRUN THEN <<ERR_IN_XRUN>> ELSE <<ERR_IN_ZGO>>

\* the body of normalize_message after the prefix has been remembered
NormalizeBody(m) ==
    LET m1 == MapSeq(MaskUuid, m)
        m2 == MapSeq(MaskNum, m1)
        m3 == MapSeq(MaskHash, m2)
        m4 == MapSeq(MaskId, m3)
        m5 == MapSeq(MaskConversation, m4)
        m6 == MapSeq(FoldWrapper, m5)
        m7 == FoldWasSet(m6)
        m8 == CutStack(m7)
        m9 == FoldKeyError(m8)
        m10 == FoldRollingBack(m9)
    IN  Generalize(m10)

\* result = f"{preserved}: {message}" if preserved else message; result.strip()
normalize_message(m) ==
    IF Preserved(m) # "" THEN <<"org.a.B:">> \o NormalizeBody(m) ELSE NormalizeBody(m)

\* messages the normalizer is tried on
MaxMsgLen == 3
MsgFragments ==
    {"org.a.B:", "failed", "failed:", "12345678", UUID_RAW, HASH_RAW, HASH_RAW_DOT,
     "user_id=123", "user_id=456", "user_id=12345678", "conversation/abc",
     "Configuration.incompatibleImprovements",
     "Configuration.Configuration.incompatibleImprovements", WAS_SET,
     AT_XRUN, AT_ZGO, GENERIC_ERR, KEY_ERR, ROLLED_BACK, ROLLING_BACK}
Messages == SeqsUpTo(MsgFragments, MaxMsgLen) \ {<<>>}

NormInit ==
    /\ nmsg \in Messages
    /\ nout1 = <<>>
    /\ nout2 = <<>>
    /\ npc = "in"
    /\ plines = <<>> /\ entries = <<>> /\ last_entry = NoEntry /\ ppc = "idle"
    /\ problems = <<>> /\ merged = <<>> /\ mpc = "idle"
    /\ rcfg = <<>> /\ reply = <<>> /\ clean_response = <<>> /\ rresult = <<>>
    /\ rstrategy = "none" /\ rpc = "idle"
    /\ centries = <<>> /\ grouped = <<>> /\ classified = <<>> /\ cpc = "idle"
    /\ areq = <<>> /\ configured = FALSE /\ apc = <<>> /\ aclassified = <<>>
    /\ acalls = <<>> /\ avalidated = <<>> /\ acorrelated = <<>> /\ areport = <<>>
    /\ astatus = <<>> /\ acsv = <<>> /\ report_files = {} /\ aoverlap = FALSE

NormalizeOnce ==
    /\ npc = "in"
    /\ nout1' = normalize_message(nmsg)
    /\ npc' = "once"
    /\ UNCHANGED <<nmsg, nout2, avars>>
    /\ UNCHANGED <<pvars, mvars, rvars, cvars, avars>>

NormalizeAgain ==
    /\ npc = "once"
    /\ nout2' = normalize_message(nout1)
    /\ npc' = "twice"
    /\ UNCHANGED <<nmsg, nout1, avars>>
    /\ UNCHANGED <<pvars, mvars, rvars, cvars, avars>>

(***************************************************************************)
(* LogParser.parse_log                                                     *)
(*                                                                         *)
(* The input is modelled line by line, each line as it is after            *)
(* line.strip().  A line that LOG_PATTERN matches is a "header" with the   *)
(* groups of the match; a line that does not match and starts with "at ",  *)
(* "Caused by" or "org." is a "frame"; any other line is "other".          *)
(***************************************************************************)
ERROR_LEVELS == {"ERROR", "ERR", "WARN", "WARNING", "EXCEPTION"}

TS_VALID   == "2025-07-22 13:17:16,212"
TS_LATER   == "2025-07-23 08:00:00,000"
TS_INVALID == "2025-13-22 13:17:16,212"   \* matches \d{4}-\d{2}-..., is no date

Header(level, ts, msg) ==
    [kind |-> "header", timestamp |-> ts, level |-> level, thread |-> "main",
     class_name |-> "c.A ", text |-> msg]
Frame(text) ==
    [kind |-> "frame", timestamp |-> "", level |-> "", thread |-> "",
     class_name |-> "", text |-> text]
Other(text) ==
    [kind |-> "other", timestamp |-> "", level |-> "", thread |-> "",
     class_name |-> "", text |-> text]

\* a lenient conversion that accepts every text the pattern matched
StrptimeLenient(ts) == FALSE

\* datetime.strptime(ts, "%Y-%m-%d %H:%M:%S,%f") raises ValueError
StrptimeRaises(ts) == ts \notin {TS_VALID, TS_LATER}

\* a parser that puts the open record in front of the list
FlushedInFront(es, le) == IF le # NoEntry THEN <<le>> \o es ELSE es

\* a parser that never appends the open record
NotFlushed(es, le) == es

\* if last_entry: entries.append(last_entry)
Flushed(es, le) == IF le # NoEntry THEN Append(es, le) ELSE es

MaxLines == 4
HeaderLines ==
    {Header("ERROR", TS_VALID, "boom"), Header("ERROR", TS_VALID, "slow"),
     Header("WARN", TS_VALID, "slow"), Header("ERR", TS_VALID, "boom"),
     Header("INFO", TS_VALID, "boom"), Header("DEBUG", TS_INVALID, "slow"),
     Header("ERROR", TS_INVALID, "boom")}
FrameLines ==
    {Frame("at c.A.run(A.java:1)"), Frame("Caused by: java.io.IOException"),
     Frame("org.x.Y.call(Y.java:7)")}
OtherLines == {Other("... 12 more")}

ParseInit ==
    /\ plines = <<>>
    /\ entries = <<>>
    /\ last_entry = NoEntry
    /\ ppc = "loop"
    /\ nmsg = <<>> /\ nout1 = <<>> /\ nout2 = <<>> /\ npc = "idle"
    /\ problems = <<>> /\ merged = <<>> /\ mpc = "idle"
    /\ rcfg = <<>> /\ reply = <<>> /\ clean_response = <<>> /\ rresult = <<>>
    /\ rstrategy = "none" /\ rpc = "idle"
    /\ centries = <<>> /\ grouped = <<>> /\ classified = <<>> /\ cpc = "idle"
    /\ areq = <<>> /\ configured = FALSE /\ apc = <<>> /\ aclassified = <<>>
    /\ acalls = <<>> /\ avalidated = <<>> /\ acorrelated = <<>> /\ areport = <<>>
    /\ astatus = <<>> /\ acsv = <<>> /\ report_files = {} /\ aoverlap = FALSE

\* match, level not in ERROR_LEVELS: continue
ParseHeaderSkipped ==
    /\ ppc = "loop" /\ Len(plines) < MaxLines
    /\ \E line \in HeaderLines :
         /\ line.level \notin ERROR_LEVELS
         /\ plines' = Append(plines, line)
    /\ UNCHANGED <<entries, last_entry, ppc, avars>>
    /\ UNCHANGED <<nvars, mvars, rvars, cvars, avars>>

\* match, level in ERROR_LEVELS: the open record is appended, a new one opened
ParseHeaderKept ==
    /\ ppc = "loop" /\ Len(plines) < MaxLines
    /\ \E line \in HeaderLines :
         /\ line.level \in ERROR_LEVELS
         /\ ~StrptimeRaises(line.timestamp)
         /\ plines' = Append(plines, line)
         /\ entries' = Flushed(entries, last_entry)
         /\ last_entry' = LogEntry(line.timestamp, line.level, line.thread,
                                   line.class_name, <<line.text>>)
    /\ UNCHANGED ppc
    /\ UNCHANGED <<nvars, mvars, rvars, cvars, avars>>

\* match, level in ERROR_LEVELS, strptime raises while the LogEntry is built:
\* the exception leaves parse_log, nothing is returned
ParseHeaderBadTimestamp ==
    /\ ppc = "loop" /\ Len(plines) < MaxLines
    /\ \E line \in HeaderLines :
         /\ line.level \in ERROR_LEVELS
         /\ StrptimeRaises(line.timestamp)
         /\ plines' = Append(plines, line)
         /\ entries' = Flushed(entries, last_entry)
    /\ ppc' = "raised"
    /\ UNCHANGED last_entry
    /\ UNCHANGED <<nvars, mvars, rvars, cvars, avars>>

\* no match, last_entry set, the line starts with a stack-frame prefix
ParseFrame ==
    /\ ppc = "loop" /\ Len(plines) < MaxLines
    /\ last_entry # NoEntry
    /\ \E line \in FrameLines :
         /\ plines' = Append(plines, line)
         /\ last_entry' = [last_entry EXCEPT !.message = Append(@, line.text)]
    /\ UNCHANGED <<entries, ppc, avars>>
    /\ UNCHANGED <<nvars, mvars, rvars, cvars, avars>>

\* any other line: continue
ParseDropped ==
    /\ ppc = "loop" /\ Len(plines) < MaxLines
    /\ \E line \in OtherLines \cup (IF last_entry = NoEntry THEN FrameLines ELSE {}) :
         plines' = Append(plines, line)
    /\ UNCHANGED <<entries, last_entry, ppc, avars>>
    /\ UNCHANGED <<nvars, mvars, rvars, cvars, avars>>

\* end of the loop: the open record is appended and entries returned
ParseReturn ==
    /\ ppc = "loop"
    /\ entries' = Flushed(entries, last_entry)
    /\ ppc' = "done"
    /\ UNCHANGED <<plines, last_entry, avars>>
    /\ UNCHANGED <<nvars, mvars, rvars, cvars, avars>>


ParseNext ==
    \/ ParseHeaderSkipped \/ ParseHeaderKept \/ ParseHeaderBadTimestamp
    \/ ParseFrame \/ ParseDropped \/ ParseReturn
SpecParse == ParseInit /\ [][ParseNext]_vars

\* ---- what the input says about the records
IsRetained(line) == line.kind = "header" /\ line.level \in ERROR_LEVELS
\* the line numbers of the headers with a retained level, in input order
Retained(ls) == SelectSeq([i \in 1..Len(ls) |-> i], LAMBDA i : IsRetained(ls[i]))

NormNext == NormalizeOnce \/ NormalizeAgain

SpecNormalize == NormInit /\ [][NormNext]_vars

(***************************************************************************)
(* ProblemReport and group_problems_by_frequency (app/api/endpoints.py)    *)
(*                                                                         *)
(* Texts:                                                                  *)
(*   message          a string; Strip gives it without surrounding blanks  *)
(*   recommendation   a sequence of parts, the text being the parts joined *)
(*                    by "\n" (";" splits the same way); a part is an      *)
(*                    optional leading ordinal "<n>. " and words joined by *)
(*                    single spaces; <<>> is the empty string              *)
(*   a word           a sequence of characters, each character named by    *)
(*                    an ASCII string: Cyrillic letters by their Latin     *)
(*                    transliteration (upper case for capitals), "soft"    *)
(*                    the soft sign, "yo" the letter io, "j" short i,      *)
(*                    "LX"/"lx" the Latin letter X/x, "." and "," and      *)
(*                    "emdash" the punctuation marks                       *)
(*   original_message the stored string itself, SomeText(text), or NoText  *)
(*                    for None; ELLIPSIS is the one character appended     *)
(*                    after a cut                                          *)
(*   root_cause, info_needed   sequences of entries joined by "; "         *)
(*   criticality      LOW, MEDIUM, HIGH are the Russian nizkaya, srednyaya,*)
(*                    vysokaya; any other string is kept as it is          *)
(***************************************************************************)
LOW    == "nizkaya"
MEDIUM == "srednyaya"
HIGH   == "vysokaya"

ProblemReport(message, original_message, frequency, criticality, recommendation, root_cause, info_needed) ==
    [message |-> message, original_message |-> original_message,
     frequency |-> frequency, criticality |-> criticality,
     recommendation |-> recommendation, root_cause |-> root_cause,
     info_needed |-> info_needed]

\* original_message: Optional[str]
NoText == [some |-> FALSE, text |-> ""]            \* original_message None
SomeText(text) == [some |-> TRUE, text |-> text]
\* the ellipsis appended after a cut, U+2026, one character: written "~", a
\* character no input text holds
ELLIPSIS == "~"
Part(ord, words) == [ord |-> ord, words |-> words]
\* the recommendation text is the empty string
IsEmptyText(rec) == rec = <<>> \/ rec = <<Part(0, <<>>)>>
PLACEHOLDER_REC == <<Part(0, << <<"emdash">> >>)>>     \* the text of one em dash

\* str.strip() of a message
Strip(msg) == CASE msg = " m " -> "m" [] msg = "  " -> "" [] OTHER -> msg

\* str.lower() of one character
LowerChar(c) ==
    CASE c = "P" -> "p" [] c = "N" -> "n" [] c = "LX" -> "lx" [] c = "LL" -> "ll"
      [] c = "LM" -> "lm" [] OTHER -> c

RECURSIVE Flatten(_)
Flatten(ss) == IF Len(ss) = 0 THEN <<>> ELSE ss[1] \o Flatten(Tail(ss))

RECURSIVE RStrip(_, _)
RStrip(w, c) ==
    IF Len(w) > 0 /\ w[Len(w)] = c THEN RStrip(SubSeq(w, 1, Len(w) - 1), c) ELSE w

EndsWith(w, suf) ==
    Len(w) >= Len(suf) /\ SubSeq(w, Len(w) - Len(suf) + 1, Len(w)) = suf

\* the tuple of suffixes of the inner loop, in its order (two entries are
\* written twice in the source)
SUFFIXES ==
    << <<"t", "e", "s", "soft">>, <<"t", "e", "s", "soft">>,
       <<"j", "t", "e", "s", "soft">>, <<"i", "t", "e", "s", "soft">>,
       <<"i", "t", "e", "s", "soft">>, <<"j", "t", "e">>, <<"i", "t", "e">>,
       <<"e", "t", "e">>, <<"t", "e">>, <<"t", "soft">> >>

\* the first suffix of the tuple that the word ends with and is longer than is
\* cut; then yo becomes e and trailing soft signs are stripped
Stem(w) ==
    LET fits == {n \in 1..Len(SUFFIXES) : EndsWith(w, SUFFIXES[n]) /\ Len(w) > Len(SUFFIXES[n])}
        base == IF fits = {} THEN w
                ELSE LET n == CHOOSE n \in fits : \A x \in fits : n <= x
                     IN  SubSeq(w, 1, Len(w) - Len(SUFFIXES[n]))
    IN  RStrip([i \in 1..Len(base) |-> IF base[i] = "yo" THEN "e" ELSE base[i]], "soft")

KEY_LEN == 25

\* lower = step.lower().rstrip('.').rstrip(','); words = lower.split();
\* ''.join(norm_words)
JoinedStems(words) ==
    LET lower == [i \in 1..Len(words) |-> MapSeq(LowerChar, words[i])]
        n     == Len(lower)
        last  == RStrip(RStrip(lower[n], "."), ",")
        kept  == IF n = 0 THEN <<>>
                 ELSE IF last = <<>> THEN SubSeq(lower, 1, n - 1)
                 ELSE [lower EXCEPT ![n] = last]
    IN  Flatten(MapSeq(Stem, kept))

\* a key that is the whole of the joined stems
WholeKey(joined) == joined

\* key = ''.join(norm_words)[:25]
CutKey(joined) == SubSeq(joined, 1, IF Len(joined) < KEY_LEN THEN Len(joined) ELSE KEY_LEN)
StepKey(words) == CutKey(JoinedStems(words))

\* the steps of one recommendation: parts = re.split(r'[;\n]+', rec); empty
\* parts and parts that are an ordinal only are skipped, ordinals removed
StepsOf(rec) == MapSeq(LAMBDA p : p.words, SelectSeq(rec, LAMBDA p : p.words # <<>>))

\* all_steps: the first step of every dedup key, in order of appearance
RECURSIVE DedupSteps(_, _, _)
DedupSteps(steps, seen_keys, all_steps) ==
    IF Len(steps) = 0 THEN all_steps
    ELSE LET key == StepKey(steps[1])
         IN  IF key \in seen_keys
             THEN DedupSteps(Tail(steps), seen_keys, all_steps)
             ELSE DedupSteps(Tail(steps), seen_keys \cup {key}, Append(all_steps, steps[1]))

\* combined_rec: "\n".join(f"{idx + 1}. {text}") or the placeholder
CombinedRec(items) ==
    LET all_steps == DedupSteps(Flatten(MapSeq(LAMBDA it : StepsOf(it.recommendation), items)),
                                {}, <<>>)
    IN  IF all_steps # <<>>
        THEN [idx \in 1..Len(all_steps) |-> Part(idx, all_steps[idx])]
        ELSE PLACEHOLDER_REC

\* the elements of a sequence without repetitions, first occurrences kept
RECURSIVE Distinct(_, _)
Distinct(s, acc) ==
    IF Len(s) = 0 THEN acc
    ELSE Distinct(Tail(s), IF \E i \in 1..Len(acc) : acc[i] = s[1] THEN acc ELSE Append(acc, s[1]))

RECURSIVE SumSeq(_)
SumSeq(s) == IF Len(s) = 0 THEN 0 ELSE s[1] + SumSeq(Tail(s))

ORIG_MAX == 200

\* str.strip() for the white space that occurs: blanks and line feeds
RECURSIVE StripText(_)
StripText(t) ==
    IF Len(t) = 0 THEN t
    ELSE IF SubSeq(t, 1, 1) \in {" ", "\n"} THEN StripText(SubSeq(t, 2, Len(t)))
    ELSE IF SubSeq(t, Len(t), Len(t)) \in {" ", "\n"} THEN StripText(SubSeq(t, 1, Len(t) - 1))
    ELSE t

\* re.split(r'\n---\n|\n|\|', text) from position start on: the next
\* separator begins at the first line feed or bar, and is the five characters
\* of "\n---\n" when they stand there
RECURSIVE SplitFrom(_, _, _)
SplitFrom(text, start, acc) ==
    LET seps == {j \in start..Len(text) : SubSeq(text, j, j) \in {"\n", "|"}}
    IN  IF seps = {} THEN Append(acc, SubSeq(text, start, Len(text)))
        ELSE LET j == CHOOSE x \in seps : \A y \in seps : x <= y
                 w == IF j + 4 <= Len(text) /\ SubSeq(text, j, j + 4) = "\n---\n" THEN 5 ELSE 1
             IN  SplitFrom(text, j + w, Append(acc, SubSeq(text, start, j - 1)))

\* the parts of one item: if it.original_message: the pieces of the stored
\* string, stripped, the empty ones dropped
OrigParts(it) ==
    IF it.original_message.some /\ it.original_message.text # ""
    THEN SelectSeq(MapSeq(StripText, SplitFrom(it.original_message.text, 1, <<>>)),
                   LAMBDA t : t # "")
    ELSE <<>>

\* " | ".join(origs)
RECURSIVE JoinOrigs(_)
JoinOrigs(origs) ==
    IF Len(origs) = 0 THEN ""
    ELSE IF Len(origs) = 1 THEN origs[1]
    ELSE origs[1] \o " | " \o JoinOrigs(Tail(origs))

\* combined_orig: the parts of all items, each kept once, joined by " | ",
\* cut to 200 characters plus an ellipsis; None when there is no part
CombinedOrig(items) ==
    LET origs  == Distinct(Flatten(MapSeq(OrigParts, items)), <<>>)
        joined == JoinOrigs(origs)
    IN  IF origs = <<>> THEN NoText
        ELSE IF Len(joined) > ORIG_MAX THEN SomeText(SubSeq(joined, 1, ORIG_MAX) \o ELLIPSIS)
        ELSE SomeText(joined)

\* a merge that would take the criticality of the first record of the group
FinalCritOfFirst(items) == items[1].criticality

\* final_crit: HIGH if any item is HIGH, else MEDIUM if any is MEDIUM, else LOW
FinalCrit(items) ==
    IF \E i \in 1..Len(items) : items[i].criticality = HIGH THEN HIGH
    ELSE IF \E i \in 1..Len(items) : items[i].criticality = MEDIUM THEN MEDIUM
    ELSE LOW

\* a merge that would keep the first record of a group and drop the others
MergeGroupKeepFirst(msg, items) == items[1]

\* the record built of a group of two or more
MergedRecord(msg, items) ==
    ProblemReport(
        msg,
        CombinedOrig(items),
        SumSeq(MapSeq(LAMBDA it : it.frequency, items)),
        FinalCrit(items),
        CombinedRec(items),
        Distinct(Flatten(MapSeq(LAMBDA it : it.root_cause, items)), <<>>),
        Distinct(Flatten(MapSeq(LAMBDA it : it.info_needed, items)), <<>>))

\* a merge that would rebuild a single record like a group
MergeGroupAlways(msg, items) == MergedRecord(msg, items)

\* one group of the dictionary `grouped`: a single record is passed on as it
\* is, two or more are merged
MergeGroup(msg, items) ==
    IF Len(items) = 1 THEN items[1] ELSE MergedRecord(msg, items)

\* the grouping of the earlier variant: by the frequency number
group_by_frequency_number(ps) ==
    LET keys == Distinct(MapSeq(LAMBDA pr : pr.frequency, ps), <<>>)
    IN  [k \in 1..Len(keys) |->
            LET items == SelectSeq(ps, LAMBDA pr : pr.frequency = keys[k])
            IN  MergeGroup(Strip(items[1].message), items)]

\* grouped[(pr.message or "").strip()].append(pr); one result per key, in the
\* order in which the keys were first seen
group_problems_by_frequency(ps) ==
    LET keys == Distinct(MapSeq(LAMBDA pr : Strip(pr.message), ps), <<>>)
    IN  [k \in 1..Len(keys) |->
            MergeGroup(keys[k], SelectSeq(ps, LAMBDA pr : Strip(pr.message) = keys[k]))]

\* ---- recommendation texts used as inputs
W_PROVERIT  == <<"P", "r", "o", "v", "e", "r", "i", "t", "soft">>    \* "Proverit'"
W_PROVERTE  == <<"P", "r", "o", "v", "e", "r", "soft", "t", "e">>    \* "Prover'te"
W_TABLICU   == <<"t", "a", "b", "l", "i", "c", "u">>                 \* "tablicu"
W_X         == <<"LX">>                                              \* "X"
W_XDOT      == <<"LX", ".">>                                         \* "X."
REC_CHECK_INF   == <<Part(1, <<W_PROVERIT, W_TABLICU, W_X>>)>>   \* "1. Proverit' tablicu X"
REC_CHECK_IMP   == <<Part(0, <<W_PROVERTE, W_TABLICU, W_X>>)>>   \* "Prover'te tablicu X"
REC_CHECK_DOT   == <<Part(0, <<W_PROVERIT, W_TABLICU, W_XDOT>>)>> \* "Proverit' tablicu X."
W_NASTROJKI == <<"n", "a", "s", "t", "r", "o", "j", "k", "i">>       \* "nastrojki"
W_PODKL     == <<"p", "o", "d", "k", "l", "yu", "ch", "e", "n", "i", "ya">>  \* "podklyucheniya"
W_BAZY      == <<"b", "a", "z", "y">>                                \* "bazy"
W_OCHEREDI  == <<"o", "ch", "e", "r", "e", "d", "i">>                \* "ocheredi"
\* "Proverit' nastrojki podklyucheniya bazy" and "... ocheredi": two steps
\* whose joined stems agree in the first 27 characters
REC_SETTINGS_DB    == <<Part(0, <<W_PROVERIT, W_NASTROJKI, W_PODKL, W_BAZY>>)>>
REC_SETTINGS_QUEUE == <<Part(0, <<W_PROVERIT, W_NASTROJKI, W_PODKL, W_OCHEREDI>>)>>
REC_EMPTY       == <<>>                                          \* ""
REC_SEPARATORS  == <<Part(0, <<>>), Part(0, <<>>)>>              \* ";"
Recommendations ==
    {REC_CHECK_INF, REC_CHECK_IMP, REC_CHECK_DOT, REC_EMPTY, REC_SEPARATORS}

\* the records the merge is tried on: three messages (two equal after
\* trimming), each with every recommendation text
MaxProblems == 3
PoolFrequency(m) == IF m = " m " THEN 2 ELSE 1
PoolCriticality(r) ==
    CASE r = REC_CHECK_IMP -> HIGH [] r = REC_CHECK_DOT -> MEDIUM
      [] r = REC_SEPARATORS -> "low" [] OTHER -> LOW
\* original messages: one example, two examples as the classifier joins
\* them, two long examples as the classifier cuts them (200 characters and
\* the ellipsis), none
EX_LONG == LONG_MSG \o " user_id=123"
EX_CUT  == SubSeq(EX_LONG \o "\n---\n" \o LONG_MSG \o " user_id=456", 1, 200) \o ELLIPSIS
PoolOriginal(r) ==
    CASE r = REC_CHECK_INF -> SomeText("example 1")
      [] r = REC_CHECK_IMP -> SomeText("example 2\n---\nexample 1")
      [] r = REC_CHECK_DOT -> SomeText(EX_CUT)
      [] OTHER -> NoText
PoolCause(r) == IF r = REC_CHECK_INF THEN <<"cause 1">> ELSE <<>>
ProblemPool ==
    {ProblemReport(m, PoolOriginal(r), PoolFrequency(m), PoolCriticality(r), r,
                   PoolCause(r), <<>>) :
        m \in {"m", " m ", "n"}, r \in Recommendations}
    \cup {ProblemReport("m", NoText, 1, LOW, r, <<>>, <<>>) :
            r \in {REC_SETTINGS_DB, REC_SETTINGS_QUEUE}}

MergeInit ==
    /\ problems \in SeqsUpTo(ProblemPool, MaxProblems)
    /\ merged = <<>>
    /\ mpc = "in"
    /\ nmsg = <<>> /\ nout1 = <<>> /\ nout2 = <<>> /\ npc = "idle"
    /\ plines = <<>> /\ entries = <<>> /\ last_entry = NoEntry /\ ppc = "idle"
    /\ rcfg = <<>> /\ reply = <<>> /\ clean_response = <<>> /\ rresult = <<>>
    /\ rstrategy = "none" /\ rpc = "idle"
    /\ centries = <<>> /\ grouped = <<>> /\ classified = <<>> /\ cpc = "idle"
    /\ areq = <<>> /\ configured = FALSE /\ apc = <<>> /\ aclassified = <<>>
    /\ acalls = <<>> /\ avalidated = <<>> /\ acorrelated = <<>> /\ areport = <<>>
    /\ astatus = <<>> /\ acsv = <<>> /\ report_files = {} /\ aoverlap = FALSE

Merge ==
    /\ mpc = "in"
    /\ merged' = group_problems_by_frequency(problems)
    /\ mpc' = "done"
    /\ UNCHANGED <<problems, nvars, pvars, rvars, cvars, avars>>

MergeNext == Merge
SpecMerge == MergeInit /\ [][MergeNext]_vars

(***************************************************************************)
(* JSONParserValidator (app/agents/json_parser_validator.py)               *)
(*                                                                         *)
(* The advisory reply is a sequence of tokens written one after the other: *)
(*   prose    text without brackets, braces, "//" or headings              *)
(*   fence    ```json or ```                                               *)
(*   nl       "\n"                                                         *)
(*   comment  "//" and the text after it up to, not including, the end of  *)
(*            its line: "// note", or the "//docs.example.com/errors" of a *)
(*            link in the prose                                            *)
(*   lb rb comma   the characters "[", "]", ","                            *)
(*   obj      one JSON object {...}; shape says how it is written:         *)
(*              plain      the four required fields                        *)
(*              missing    {"message": ...} only                           *)
(*              innercomma plain, with a comma before the closing brace    *)
(*              nested     plain, plus "extra": {"a": 1}                   *)
(*   pos      a JSON list of scalars [message, frequency, criticality,     *)
(*            recommendation] (shape four) or [message, frequency] (two)   *)
(*   scalar   a JSON number                                                *)
(*   deep     a JSON list nested deeper than the interpreter's recursion   *)
(*            limit: [[[[ ... ]]]]                                         *)
(*   md       a section "#### Oshibka No<n>: `msg` Chastota: <freq>        *)
(*            Kritichnost': <crit>" (freq 0 / crit "": the field is not    *)
(*            written; freq "huge": a number of 5000 digits); the heading  *)
(*            and both labels are Russian                                  *)
(* The frequency of an item is [t, n, elems]: t = "int" the number n,      *)
(* "str" the string of the digits of n, "bad" the string "abc", "list" a   *)
(* JSON list of the elements elems.                                        *)
(***************************************************************************)
Freq(t, n) == [t |-> t, n |-> n, elems |-> <<>>]
FreqList(elems) == [t |-> "list", n |-> 0, elems |-> elems]
Tok(kind) == [kind |-> kind, msg |-> "", freq |-> Freq("int", 0), crit |-> "", shape |-> ""]
Obj(msg, freq, shape) ==
    [kind |-> "obj", msg |-> msg, freq |-> freq, crit |-> "low", shape |-> shape]
Pos(shape) == [kind |-> "pos", msg |-> "p", freq |-> Freq("int", 6), crit |-> "low", shape |-> shape]
Md(msg, n, crit) == [kind |-> "md", msg |-> msg, freq |-> Freq("int", n), crit |-> crit, shape |-> ""]

W_DO       == <<"d", "o">>
REC_DO_X   == <<Part(0, <<W_DO, W_X>>)>>      \* "do X", the recommendation of every item
UNKNOWN_MSG == "Neizvestno"                   \* the Russian "Neizvestno" (unknown)

\* ---- clean_json_response
\* re.sub(r'//.*?(?:\r?\n|$)', '', response): a comment goes with everything
\* up to and including the next line end, or up to the end of the text
RECURSIVE RemoveComments(_)
RemoveComments(r) ==
    IF Len(r) = 0 THEN <<>>
    ELSE IF r[1].kind = "comment"
         THEN LET k == FirstIdx(LAMBDA t : t.kind = "nl", r, 2)
              IN  IF k = 0 THEN <<>> ELSE RemoveComments(SubSeq(r, k + 1, Len(r)))
         ELSE <<r[1]>> \o RemoveComments(Tail(r))

\* an object whose frequency is a list has brackets of its own
HasBrackets(t) == t.kind \in {"pos", "deep"} \/ (t.kind = "obj" /\ t.freq.t = "list")
HasOpenBracket(t)  == t.kind = "lb" \/ HasBrackets(t)
HasCloseBracket(t) == t.kind = "rb" \/ HasBrackets(t)

\* response[start_idx:end_idx + 1]: a slice that starts or ends at the
\* frequency list of an object holds only a part of that object (kind "cut"),
\* or the frequency list alone (kind "freqlist")
Slice(r, start_idx, end_idx) ==
    [i \in 1..(end_idx - start_idx + 1) |->
        LET t == r[start_idx + i - 1]
        IN  IF t.kind = "obj" /\ t.freq.t = "list"
            THEN IF start_idx = end_idx THEN [t EXCEPT !.kind = "freqlist"]
                 ELSE IF i = 1 \/ i = end_idx - start_idx + 1 THEN [t EXCEPT !.kind = "cut"]
                 ELSE t
            ELSE t]

clean_json_response(response) ==
    LET r1 == SelectSeq(response, LAMBDA t : t.kind # "nl")     \* control characters
        r2 == SelectSeq(r1, LAMBDA t : t.kind # "fence")        \* code fences
        r3 == RemoveComments(r2)
        start_idx == FirstIdx(HasOpenBracket, r3, 1)
        ends == {i \in 1..Len(r3) : HasCloseBracket(r3[i])}
        end_idx == IF ends = {} THEN 0 ELSE CHOOSE i \in ends : \A j \in ends : j <= i
    IN  IF start_idx > 0 /\ start_idx <= end_idx THEN Slice(r3, start_idx, end_idx) ELSE <<>>

\* ---- json.loads of a slice: [status, data]
\* status "ok", "decode_error" (json.JSONDecodeError) or "recursion_error"
\* (RecursionError, raised when the decoder reaches a deep token)
Decoded(status, data) == [status |-> status, data |-> data]

RECURSIVE ScanList(_, _, _, _)
ScanList(s, i, st, acc) ==
    IF i > Len(s) THEN Decoded("decode_error", <<>>)
    ELSE LET t == s[i] IN
         IF st = "after"
         THEN IF t.kind = "comma" THEN ScanList(s, i + 1, "need", acc)
              ELSE IF t.kind = "rb" /\ i = Len(s) THEN Decoded("ok", acc)
              ELSE Decoded("decode_error", <<>>)
         ELSE IF t.kind = "rb"
              THEN IF st = "first" /\ i = Len(s) THEN Decoded("ok", acc)
                   ELSE Decoded("decode_error", <<>>)
              ELSE IF t.kind = "deep" THEN Decoded("recursion_error", <<>>)
              ELSE IF t.kind \in {"pos", "scalar"} \/ (t.kind = "obj" /\ t.shape # "innercomma")
                   THEN ScanList(s, i + 1, "after", Append(acc, t))
                   ELSE Decoded("decode_error", <<>>)

json_loads(s) ==
    IF Len(s) = 0 THEN Decoded("decode_error", <<>>)
    ELSE IF s[1].kind = "lb" THEN ScanList(s, 2, "first", <<>>)
    ELSE IF s[1].kind = "deep" THEN Decoded("recursion_error", <<>>)
    ELSE IF s[1].kind = "pos" /\ Len(s) = 1
         THEN Decoded("ok", [i \in 1..(IF s[1].shape = "four" THEN 4 ELSE 2) |-> Tok("scalar")])
    ELSE IF s[1].kind = "freqlist" /\ Len(s) = 1
         THEN Decoded("ok", [i \in 1..Len(s[1].freq.elems) |-> Tok("scalar")])
    ELSE Decoded("decode_error", <<>>)

\* ---- one item
\* int(v) for the elements of a frequency list raises for "abc"
IntRaises(elems) == \E i \in 1..Len(elems) : elems[i].t = "bad"
\* freq list: sum(numeric_values) if numeric_values else len(freq); len(freq)
\* when int() raised
FlattenFrequency(freq) ==
    IF freq.t # "list" THEN freq
    ELSE IF IntRaises(freq.elems) \/ Len(freq.elems) = 0 THEN Freq("int", Len(freq.elems))
    ELSE Freq("int", SumSeq(MapSeq(LAMBDA e : e.n, freq.elems)))

\* ProblemReport(**item) raises ValidationError: a required field is missing
\* or the frequency is no integer
Invalid(item) == item.shape = "missing" \/ FlattenFrequency(item.freq).t = "bad"
Report(item) ==
    ProblemReport(item.msg, NoText, FlattenFrequency(item.freq).n, item.crit, REC_DO_X,
                  <<>>, <<>>)

Outcome(status, reports) == [status |-> status, reports |-> reports]

\* ---- strict decode (the try block)
StrictDecode(text) ==
    LET d == json_loads(text)
        \* dicts, and lists of at least four elements turned into dicts
        normalized == SelectSeq(d.data,
                        LAMBDA t : t.kind = "obj" \/ (t.kind = "pos" /\ t.shape = "four"))
    IN  IF d.status # "ok" THEN Outcome(d.status, <<>>)
        ELSE IF \E i \in 1..Len(normalized) : Invalid(normalized[i])
             THEN Outcome("validation_error", <<>>)
             ELSE Outcome("ok", MapSeq(Report, normalized))

\* ---- repair decode (the first except block)
\* re.sub(r',\s*\]$', ']', fixed); the second substitution and the appended
\* ']' never apply, the slice ends with ']'
Fixed(text) ==
    LET n == Len(text)
    IN  IF n >= 2 /\ text[n].kind = "rb" /\ text[n - 1].kind = "comma"
        THEN SubSeq(text, 1, n - 2) \o <<text[n]>>
        ELSE text

RepairDecode(text) ==
    LET d == json_loads(Fixed(text))
    IN  IF d.status # "ok" THEN Outcome("failed", <<>>)
        \* item.get raises AttributeError for an item that is no dict
        ELSE IF \E i \in 1..Len(d.data) : d.data[i].kind # "obj" THEN Outcome("failed", <<>>)
        ELSE IF \E i \in 1..Len(d.data) : Invalid(d.data[i]) THEN Outcome("failed", <<>>)
        ELSE Outcome("ok", MapSeq(Report, d.data))

\* ---- per-object salvage (the second except block)
\* re.findall(r'\{[^\{\}]*\}', text): of a nested object only the
\* inner {"a": 1} is found; json.loads fails on a comma before the brace
Salvaged(t) == t.kind = "obj" /\ t.shape \in {"plain"} /\ ~Invalid(t)
Salvage(text) == MapSeq(Report, SelectSeq(text, Salvaged))

\* ---- parse_markdown
\* crit_match.group(1).lower()
LowerWord(w) == CASE w = "High" -> "high" [] OTHER -> w
MdReport(t) ==
    ProblemReport(IF t.msg # "" THEN t.msg ELSE UNKNOWN_MSG, NoText,
                  IF t.freq.n > 0 THEN t.freq.n ELSE 1,
                  IF t.crit # "" THEN LowerWord(t.crit) ELSE LOW,
                  PLACEHOLDER_REC, <<>>, <<>>)
\* int(freq_match.group(1)) raises ValueError for a number of more digits
\* than the interpreter converts (4300); except Exception: continue
IntTooLong(t) == t.freq.t = "huge"
parse_markdown(response) ==
    MapSeq(MdReport, SelectSeq(response, LAMBDA t : t.kind = "md" /\ ~IntTooLong(t)))

\* ---- the replies parse_and_validate is tried on
OBJ_M          == Obj("m", Freq("int", 3), "plain")
OBJ_Q          == Obj("q", Freq("int", 8), "plain")
OBJ_N          == Obj("n", Freq("str", 4), "plain")
OBJ_LISTFREQ   == Obj("l", FreqList(<<Freq("int", 1), Freq("str", 2)>>), "plain")
OBJ_MISSING    == Obj("x", Freq("int", 0), "missing")
OBJ_BADFREQ    == Obj("b", Freq("bad", 0), "plain")
OBJ_INNERCOMMA == Obj("k", Freq("int", 5), "innercomma")
OBJ_NESTED     == Obj("e", Freq("int", 2), "nested")
POS_FOUR       == Pos("four")
POS_TWO        == Pos("two")
MD_FULL        == Md("boom", 7, "high")
MD_BARE        == Md("", 0, "")
MD_CAPS        == Md("slow", 2, "High")
MD_HUGE        == [Md("big", 0, "high") EXCEPT !.freq = Freq("huge", 0)]

ItemAtoms ==
    {OBJ_M, OBJ_Q, OBJ_N, OBJ_LISTFREQ, OBJ_MISSING, OBJ_BADFREQ, OBJ_INNERCOMMA, OBJ_NESTED,
     POS_FOUR, POS_TWO, Tok("scalar"), Tok("deep")}
MaxItems == 2

\* a reply is described by: the items of its list, whether a comma follows
\* the last item, the layout ("none": no list at all, "inline", "fenced":
\* inline between prose and code fences, "linked": the same with a link
\* at the end of the prose before the fence, "lines": one item per line), the
\* item before which a "//" comment line stands (0: none) and the markdown
\* sections after the list
RECURSIVE ItemTokens(_, _, _, _, _)
ItemTokens(items, i, trailing, lines, cpos) ==
    IF i > Len(items) THEN <<>>
    ELSE (IF cpos = i THEN <<Tok("comment"), Tok("nl")>> ELSE <<>>)
         \o <<items[i]>>
         \o (IF i < Len(items) \/ trailing THEN <<Tok("comma")>> ELSE <<>>)
         \o (IF lines THEN <<Tok("nl")>> ELSE <<>>)
         \o ItemTokens(items, i + 1, trailing, lines, cpos)

ReplyOf(c) ==
    LET list == <<Tok("lb")>> \o (IF c.layout = "lines" THEN <<Tok("nl")>> ELSE <<>>)
                  \o ItemTokens(c.items, 1, c.trailing, c.layout = "lines", c.cpos)
                  \o <<Tok("rb")>>
        body == CASE c.layout = "none"   -> <<Tok("prose")>>
                  [] c.layout = "fenced" -> <<Tok("prose"), Tok("fence"), Tok("nl")>> \o list
                                              \o <<Tok("nl"), Tok("fence"), Tok("prose")>>
                  [] c.layout = "linked" -> <<Tok("prose"), Tok("comment"), Tok("nl"),
                                              Tok("fence"), Tok("nl")>> \o list
                                              \o <<Tok("nl"), Tok("fence"), Tok("prose")>>
                  [] OTHER               -> list
    IN  body \o Flatten(MapSeq(LAMBDA m : <<Tok("nl"), m>>, c.mds))

ReplyConfigs ==
    {[items |-> its, trailing |-> tr, layout |-> lay, cpos |-> cp, mds |-> mds] :
        its \in SeqsUpTo(ItemAtoms, MaxItems), tr \in BOOLEAN,
        lay \in {"none", "inline", "fenced", "linked", "lines"}, cp \in 0..MaxItems,
        mds \in {<<>>, <<MD_FULL>>, <<MD_BARE, MD_FULL>>, <<MD_CAPS, MD_BARE>>,
                 <<MD_HUGE, MD_FULL>>}}

ValidConfig(c) ==
    /\ c.cpos <= Len(c.items)
    /\ c.cpos > 0 => c.layout = "lines"
    /\ c.layout = "none" => c.items = <<>> /\ ~c.trailing
    /\ c.trailing => c.items # <<>>

RecoverInit ==
    /\ rcfg \in {c \in ReplyConfigs : ValidConfig(c)}
    /\ reply = ReplyOf(rcfg)
    /\ clean_response = <<>>
    /\ rresult = <<>>
    /\ rstrategy = "none"
    /\ rpc = "clean"
    /\ nmsg = <<>> /\ nout1 = <<>> /\ nout2 = <<>> /\ npc = "idle"
    /\ plines = <<>> /\ entries = <<>> /\ last_entry = NoEntry /\ ppc = "idle"
    /\ problems = <<>> /\ merged = <<>> /\ mpc = "idle"
    /\ centries = <<>> /\ grouped = <<>> /\ classified = <<>> /\ cpc = "idle"
    /\ areq = <<>> /\ configured = FALSE /\ apc = <<>> /\ aclassified = <<>>
    /\ acalls = <<>> /\ avalidated = <<>> /\ acorrelated = <<>> /\ areport = <<>>
    /\ astatus = <<>> /\ acsv = <<>> /\ report_files = {} /\ aoverlap = FALSE

\* clean_response = clean_json_response(response); if clean_response: ...
Clean ==
    /\ rpc = "clean"
    /\ clean_response' = clean_json_response(reply)
    /\ rpc' = IF clean_response' # <<>> THEN "strict" ELSE "markdown"
    /\ UNCHANGED <<rcfg, reply, rresult, rstrategy, nvars, pvars, mvars, cvars, avars>>

\* the try block returns its list
StrictReturns ==
    /\ rpc = "strict"
    /\ StrictDecode(clean_response).status = "ok"
    /\ rresult' = StrictDecode(clean_response).reports
    /\ rstrategy' = "strict"
    /\ rpc' = "done"
    /\ UNCHANGED <<rcfg, reply, clean_response, nvars, pvars, mvars, cvars, avars>>

\* except (json.JSONDecodeError, ValidationError)
StrictFails ==
    /\ rpc = "strict"
    /\ StrictDecode(clean_response).status \in {"decode_error", "validation_error"}
    /\ rpc' = "repair"
    /\ UNCHANGED <<rcfg, reply, clean_response, rresult, rstrategy, nvars, pvars, mvars, cvars, avars>>

\* any other exception of the try block leaves parse_and_validate
StrictRaises ==
    /\ rpc = "strict"
    /\ StrictDecode(clean_response).status = "recursion_error"
    /\ rpc' = "raised"
    /\ UNCHANGED <<rcfg, reply, clean_response, rresult, rstrategy, nvars, pvars, mvars, cvars, avars>>

RepairReturns ==
    /\ rpc = "repair"
    /\ RepairDecode(clean_response).status = "ok"
    /\ rresult' = RepairDecode(clean_response).reports
    /\ rstrategy' = "repair"
    /\ rpc' = "done"
    /\ UNCHANGED <<rcfg, reply, clean_response, nvars, pvars, mvars, cvars, avars>>

\* except Exception
RepairFails ==
    /\ rpc = "repair"
    /\ RepairDecode(clean_response).status # "ok"
    /\ rpc' = "salvage"
    /\ UNCHANGED <<rcfg, reply, clean_response, rresult, rstrategy, nvars, pvars, mvars, cvars, avars>>

\* if reports: return reports
SalvageReturns ==
    /\ rpc = "salvage"
    /\ Salvage(clean_response) # <<>>
    /\ rresult' = Salvage(clean_response)
    /\ rstrategy' = "salvage"
    /\ rpc' = "done"
    /\ UNCHANGED <<rcfg, reply, clean_response, nvars, pvars, mvars, cvars, avars>>

SalvageEmpty ==
    /\ rpc = "salvage"
    /\ Salvage(clean_response) = <<>>
    /\ rpc' = "markdown"
    /\ UNCHANGED <<rcfg, reply, clean_response, rresult, rstrategy, nvars, pvars, mvars, cvars, avars>>

\* return JSONParserValidator.parse_markdown(response)
ProseFallback ==
    /\ rpc = "markdown"
    /\ rresult' = parse_markdown(reply)
    /\ rstrategy' = "prose"
    /\ rpc' = "done"
    /\ UNCHANGED <<rcfg, reply, clean_response, nvars, pvars, mvars, cvars, avars>>

RecoverNext ==
    \/ Clean \/ StrictReturns \/ StrictFails \/ StrictRaises
    \/ RepairReturns \/ RepairFails \/ SalvageReturns \/ SalvageEmpty \/ ProseFallback
SpecRecover == RecoverInit /\ [][RecoverNext]_vars

\* ---- what a reply says about its records
IsValidItem(t) ==
    \/ t.kind = "obj" /\ t.shape \in {"plain", "innercomma", "nested"} /\ ~Invalid(t)
    \/ t.kind = "pos" /\ t.shape = "four"
\* an item that is a candidate record and cannot be validated
IsInvalidItem(t) == t.kind = "obj" /\ Invalid(t)

(***************************************************************************)
(* LogParser.group_by_normalized_message and ErrorClassifier               *)
(* (app/agents/log_parser.py, app/agents/error_classifier.py)              *)
(*                                                                         *)
(* A list of LogEntry is written as a sequence of runs [entry, count]:     *)
(* count equal entries one after the other.  A group of the dictionary     *)
(* `grouped` is [key, entries], the groups in the order of insertion.      *)
(* The text of a message is its fragments joined by single spaces.         *)
(***************************************************************************)
Run(entry, count) == [entry |-> entry, count |-> count]

GENERIC_ERR_UPPER == "PROIZOWLA OWIBKA"      \* the sentence in capitals
SENTINEL          == "proizowla owibka"      \* the sentence in lower case

\* str.lower() of a fragment: the sentence in its three spellings; the other
\* fragments differ from the sentinel in any case
LowerFragment(t) == IF t \in {GENERIC_ERR, GENERIC_ERR_UPPER} THEN SENTINEL ELSE t

\* normalized.lower() == <sentinel>
IsNoise(normalized) == MapSeq(LowerFragment, normalized) = <<SENTINEL>>

\* a grouping that would compare with the sentinel without lower()
GroupCaseSensitive(es) ==
    LET kept == SelectSeq(es, LAMBDA r : normalize_message(r.entry.message) # <<SENTINEL>>)
        keys == Distinct(MapSeq(LAMBDA r : normalize_message(r.entry.message), kept), <<>>)
    IN  [k \in 1..Len(keys) |->
            [key |-> keys[k],
             entries |-> SelectSeq(kept, LAMBDA r : normalize_message(r.entry.message) = keys[k])]]

\* a grouping that would key the records by level and canonical message
GroupByLevelAndMessage(es) ==
    LET KeyOf(r) == <<r.entry.level, normalize_message(r.entry.message)>>
        kept == SelectSeq(es, LAMBDA r : ~IsNoise(normalize_message(r.entry.message)))
        keys == Distinct(MapSeq(KeyOf, kept), <<>>)
    IN  [k \in 1..Len(keys) |->
            [key |-> keys[k][2], entries |-> SelectSeq(kept, LAMBDA r : KeyOf(r) = keys[k])]]

\* grouped[normalized].append(entry) for every entry that is no noise
group_by_normalized_message(es) ==
    LET kept == SelectSeq(es, LAMBDA r : ~IsNoise(normalize_message(r.entry.message)))
        keys == Distinct(MapSeq(LAMBDA r : normalize_message(r.entry.message), kept), <<>>)
    IN  [k \in 1..Len(keys) |->
            [key |-> keys[k],
             entries |-> SelectSeq(kept, LAMBDA r : normalize_message(r.entry.message) = keys[k])]]

\* the fragments of a message joined by single spaces
RECURSIVE Text(_)
Text(m) == IF Len(m) = 0 THEN "" ELSE IF Len(m) = 1 THEN m[1] ELSE m[1] \o " " \o Text(Tail(m))

ClassifiedError(message, original_message, frequency, level, class_name, criticality) ==
    [message |-> message, original_message |-> original_message, frequency |-> frequency,
     level |-> level, class_name |-> class_name, criticality |-> criticality]

PRIORITY_ORDER == <<"ERROR", "WARN", "INFO", "TRACE", "DEBUG">>

\* the first level of priority_order that is in levels, 'INFO' if none is
determine_most_critical_level(levels) ==
    LET found == {i \in 1..Len(PRIORITY_ORDER) :
                    \E j \in 1..Len(levels) : levels[j] = PRIORITY_ORDER[i]}
    IN  IF found = {} THEN "INFO"
        ELSE PRIORITY_ORDER[CHOOSE i \in found : \A x \in found : i <= x]

\* LEVEL_CRITICALITY.get(base_level, <low>)
LEVEL_CRITICALITY(level) ==
    CASE level = "ERROR" -> HIGH [] level = "WARN" -> MEDIUM [] OTHER -> LOW

WARN_HIGH_ABOVE == 50

\* the adjustment of the previous version: an ERROR seen once is medium
AdjustRareErrorMedium(base_crit, level, frequency) ==
    IF level = "ERROR" THEN (IF frequency > 1 THEN HIGH ELSE MEDIUM)
    ELSE IF level = "WARN" THEN (IF frequency > WARN_HIGH_ABOVE THEN HIGH ELSE MEDIUM)
    ELSE base_crit

adjust_criticality(base_crit, level, frequency) ==
    IF level = "ERROR" THEN HIGH
    ELSE IF level = "WARN" THEN (IF frequency > WARN_HIGH_ABOVE THEN HIGH ELSE MEDIUM)
    ELSE base_crit

MAX_EXAMPLES == 5
CLS_MAX_LEN  == 200

\* examples: the first MAX_EXAMPLES distinct messages of the group
Examples(es) ==
    LET all == Distinct(MapSeq(LAMBDA r : Text(r.entry.message), es), <<>>)
    IN  SubSeq(all, 1, IF Len(all) < MAX_EXAMPLES THEN Len(all) ELSE MAX_EXAMPLES)

\* "\n---\n".join(examples)
EXAMPLE_SEP == "\n---\n"
RECURSIVE JoinExamples(_)
JoinExamples(examples) ==
    IF Len(examples) = 0 THEN ""
    ELSE IF Len(examples) = 1 THEN examples[1]
    ELSE examples[1] \o EXAMPLE_SEP \o JoinExamples(Tail(examples))

\* original_combined: the examples joined, cut to 200 characters plus an
\* ellipsis; the string stored in ClassifiedError.original_message
OriginalCombined(es) ==
    LET joined == JoinExamples(Examples(es))
    IN  IF Len(joined) > CLS_MAX_LEN THEN SubSeq(joined, 1, CLS_MAX_LEN) \o ELLIPSIS ELSE joined

\* the examples group_problems_by_frequency recovers from one stored
\* original_message: its parts, each kept once
SplitOriginal(text) == Distinct(OrigParts([original_message |-> SomeText(text)]), <<>>)

\* one ClassifiedError of classify_errors
ClassifyGroup(g) ==
    LET levels     == MapSeq(LAMBDA r : r.entry.level, g.entries)
        base_level == determine_most_critical_level(levels)
        base_crit  == LEVEL_CRITICALITY(base_level)
        frequency  == SumSeq(MapSeq(LAMBDA r : r.count, g.entries))
    IN  ClassifiedError(Text(g.key), OriginalCombined(g.entries), frequency, base_level,
                        g.entries[1].entry.class_name,
                        adjust_criticality(base_crit, base_level, frequency))

classify_errors(grouped_entries) == MapSeq(ClassifyGroup, grouped_entries)

\* ---- the lists the grouping and the classifier are tried on
Entry(level, message) == LogEntry(TS_VALID, level, "main", "c.A ", message)
MaxRuns == 3
RunPool ==
    {Run(Entry("ERROR", <<"user_id=123">>), 1),   Run(Entry("WARN", <<"user_id=456">>), 1),
     Run(Entry("WARN", <<"user_id=456">>), 50),
     Run(LogEntry(TS_LATER, "WARN", "worker-2", "d.B ", <<"user_id=123">>), 1),
     Run(Entry("ERROR", <<"failed">>), 50),       Run(Entry("WARN", <<"failed">>), 50),
     Run(Entry("ERR", <<"failed">>), 1),          Run(Entry("WARNING", <<"failed">>), 1),
     Run(Entry("EXCEPTION", <<"user_id=12345678">>), 1), Run(Entry("INFO", <<"failed">>), 50),
     Run(Entry("INFO", <<"user_id=123">>), 1),    Run(Entry("TRACE", <<"failed">>), 1),
     Run(Entry("DEBUG", <<"user_id=456">>), 1),   Run(Entry("ERROR", <<GENERIC_ERR>>), 1),
     Run(Entry("WARN", <<GENERIC_ERR_UPPER>>), 50),
     Run(Entry("ERR", <<GENERIC_ERR, AT_XRUN>>), 1),
     Run(Entry("ERROR", <<PIPED>>), 1),
     Run(Entry("ERROR", <<LONG_MSG, "user_id=123">>), 1),
     Run(Entry("WARN", <<LONG_MSG, "user_id=456">>), 1)}

ClassifyInit ==
    /\ centries \in SeqsUpTo(RunPool, MaxRuns)
    /\ grouped = <<>>
    /\ classified = <<>>
    /\ cpc = "in"
    /\ nmsg = <<>> /\ nout1 = <<>> /\ nout2 = <<>> /\ npc = "idle"
    /\ plines = <<>> /\ entries = <<>> /\ last_entry = NoEntry /\ ppc = "idle"
    /\ problems = <<>> /\ merged = <<>> /\ mpc = "idle"
    /\ rcfg = <<>> /\ reply = <<>> /\ clean_response = <<>> /\ rresult = <<>>
    /\ rstrategy = "none" /\ rpc = "idle"
    /\ areq = <<>> /\ configured = FALSE /\ apc = <<>> /\ aclassified = <<>>
    /\ acalls = <<>> /\ avalidated = <<>> /\ acorrelated = <<>> /\ areport = <<>>
    /\ astatus = <<>> /\ acsv = <<>> /\ report_files = {} /\ aoverlap = FALSE

\* grouped_entries = LogParser.group_by_normalized_message(entries)
GroupEntries ==
    /\ cpc = "in"
    /\ grouped' = group_by_normalized_message(centries)
    /\ cpc' = "grouped"
    /\ UNCHANGED <<centries, classified, nvars, pvars, mvars, rvars, avars>>

\* classified = ErrorClassifier.classify_errors(grouped_entries)
ClassifyGroups ==
    /\ cpc = "grouped"
    /\ classified' = classify_errors(grouped)
    /\ cpc' = "classified"
    /\ UNCHANGED <<centries, grouped, nvars, pvars, mvars, rvars, avars>>

ClassifyNext == GroupEntries \/ ClassifyGroups
SpecClassify == ClassifyInit /\ [][ClassifyNext]_vars

(***************************************************************************)
(* analyze_log (app/api/endpoints.py)                                      *)
(*                                                                         *)
(* Two requests are served by one event loop.  A request runs without      *)
(* interruption from one await to the next; its awaits are file.read()     *)
(* and gigachat.get_completion(prompt).  What a request is given is        *)
(* [readable, log, advisory]: whether file.read() succeeds, what parse_log *)
(* makes of the decoded file ([bad_ts, entries]: strptime raises, or the   *)
(* list of LogEntry written as runs) and what the advisory service does    *)
(* when called ([ok, text]: it answers with the text, or the call raises). *)
(* The prompt is a function of `classified` and is read by the advisory    *)
(* service only; the summary line of the report holds the time of day and  *)
(* is left out, the report is [total_problems, problems].                  *)
(***************************************************************************)
Requests == {1, 2}

\* "Ne udalos' poluchit' rekomendacii ot LLM."
FALLBACK_REC ==
    <<Part(0, << <<"N", "e">>, <<"u", "d", "a", "l", "o", "s", "soft">>,
                 <<"p", "o", "l", "u", "ch", "i", "t", "soft">>,
                 <<"r", "e", "k", "o", "m", "e", "n", "d", "a", "c", "i", "i">>,
                 <<"o", "t">>, <<"LL", "LL", "LM", ".">> >>)>>

\* JSONParserValidator.parse_and_validate as one function of the reply:
\* status "ok" with the returned list, or "raised"
\* the chain of strategies, given what each of them makes of clean_response
Strategies(response, clean, strict, repair, salvaged) ==
    IF clean = <<>> THEN Outcome("ok", parse_markdown(response))
    ELSE IF strict.status = "ok" THEN strict
    ELSE IF strict.status = "recursion_error" THEN Outcome("raised", <<>>)
    ELSE IF repair.status = "ok" THEN repair
    ELSE IF salvaged # <<>> THEN Outcome("ok", salvaged)
    ELSE Outcome("ok", parse_markdown(response))
ParseClean(response, clean) ==
    Strategies(response, clean, StrictDecode(clean), RepairDecode(clean), Salvage(clean))
parse_and_validate(response) == ParseClean(response, clean_json_response(response))

\* for err in classified: validated.append(ProblemReport(...))
Fallback(cls) ==
    MapSeq(LAMBDA err : ProblemReport(err.message, SomeText(err.original_message), err.frequency,
                                      err.criticality, FALLBACK_REC, <<>>, <<>>), cls)

\* validated = parse_and_validate(response); if not validated: fallback
Validated(cls, reports) == IF reports = <<>> THEN Fallback(cls) ELSE reports

\* a sort that would keep the order of `classified`
Unsorted(cls) == cls

\* sorted(classified, key=lambda e: e.frequency, reverse=True): descending
\* frequency, equal frequencies in the order of `classified`
sorted_errors(cls) ==
    LET n == Len(cls)
        Before(j, i) == \/ cls[j].frequency > cls[i].frequency
                        \/ (cls[j].frequency = cls[i].frequency /\ j < i)
    IN  [k \in 1..n |->
            cls[CHOOSE i \in 1..n : Cardinality({j \in 1..n : Before(j, i)}) = k - 1]]

\* severity_order.get(criticality, 0)
severity_order(c) == CASE c = LOW -> 0 [] c = MEDIUM -> 1 [] c = HIGH -> 2 [] OTHER -> 0

\* if severity_order.get(llm_crit, 0) < severity_order.get(classified_crit, 0):
\*     pr.criticality = classified_crit
RaisedCrit(llm_crit, classified_crit) ==
    IF severity_order(llm_crit) < severity_order(classified_crit)
    THEN classified_crit ELSE llm_crit

\* for idx, pr in enumerate(validated): if idx < len(sorted_errors): ...
RankCorrelate(validated, cls) ==
    LET sorted == sorted_errors(cls)
    IN  [idx \in 1..Len(validated) |->
            IF idx <= Len(sorted)
            THEN [validated[idx] EXCEPT
                    !.original_message = SomeText(sorted[idx].original_message),
                    !.frequency = sorted[idx].frequency,
                    !.criticality = RaisedCrit(validated[idx].criticality,
                                               sorted[idx].criticality)]
            ELSE validated[idx]]

\* report = {"total_problems": len(problems), "problems": [...]}
JsonReport(ps) == [total_problems |-> Len(ps), problems |-> ps]
NoReport == [total_problems |-> 0, problems |-> <<>>]

\* what analyze_log does once the advisory service has answered, from
\* parse_and_validate to the return: [status, validated, correlated, report]
AnalyzeResult(status, validated, correlated, report) ==
    [status |-> status, validated |-> validated, correlated |-> correlated,
     report |-> report]

\* grouped_report = group_problems_by_frequency(validated) and the report
Reported(validated, correlated) ==
    AnalyzeResult(200, validated, correlated,
                  JsonReport(group_problems_by_frequency(correlated)))
\* the rank correlation of the validated records
Correlated(cls, validated) == Reported(validated, RankCorrelate(validated, cls))
\* the fallback, unless parse_and_validate raised
AfterRecovery(cls, parsed) ==
    IF parsed.status = "raised" THEN AnalyzeResult(500, <<>>, <<>>, NoReport)
    ELSE Correlated(cls, Validated(cls, parsed.reports))
AfterAdvisory(cls, response) == AfterRecovery(cls, parse_and_validate(response))

\* ---- the requests analyze_log is tried on
Input(readable, log, advisory) == [readable |-> readable, log |-> log, advisory |-> advisory]
ParsedLog(bad_ts, es) == [bad_ts |-> bad_ts, entries |-> es]
Advisory(ok, text) == [ok |-> ok, text |-> text]
InlineReply(items) ==
    ReplyOf([items |-> items, trailing |-> FALSE, layout |-> "inline", cpos |-> 0, mds |-> <<>>])
Item(msg, n, crit) == [Obj(msg, Freq("int", n), "plain") EXCEPT !.crit = crit]

RUN_WARN  == Run(Entry("WARN", <<"user_id=456">>), 1)
RUN_ERROR == Run(Entry("ERROR", <<"failed">>), 3)
RUN_ERR   == Run(Entry("ERR", <<"user_id=123">>), 2)

AnalyzeLogs ==
    {ParsedLog(TRUE, <<>>),                       \* a header with a bad timestamp
     ParsedLog(FALSE, <<>>),                      \* no retained line
     ParsedLog(FALSE, <<RUN_ERROR>>),
     ParsedLog(FALSE, <<RUN_WARN, RUN_ERROR>>),   \* frequencies 1, 3
     ParsedLog(FALSE, <<RUN_ERROR, RUN_WARN>>),   \* frequencies 3, 1
     ParsedLog(FALSE, <<RUN_ERR, RUN_WARN, RUN_ERR>>),   \* one group: frequency 5
     ParsedLog(FALSE, <<RUN_WARN, Run(Entry("ERROR", <<"failed">>), 1)>>),   \* 1, 1
     ParsedLog(FALSE, <<Run(Entry("ERROR", <<GENERIC_ERR>>), 1)>>),          \* noise only
     \* two groups, the examples of the first cut at 200 characters
     ParsedLog(FALSE, <<Run(Entry("ERROR", <<LONG_MSG, "user_id=123">>), 1), RUN_ERROR,
                        Run(Entry("WARN", <<LONG_MSG, "user_id=456">>), 1)>>)}

Advisories ==
    {Advisory(FALSE, <<>>),                       \* get_completion raises
     Advisory(TRUE, <<Tok("prose")>>),            \* nothing to recover
     Advisory(TRUE, InlineReply(<<Item("failed", 9, LOW)>>)),
     Advisory(TRUE, InlineReply(<<Item("failed", 9, HIGH), Item("user_id=<ID>", 9, "")>>)),
     Advisory(TRUE, InlineReply(<<Item("failed", 2, MEDIUM), Item("failed", 4, LOW),
                                  Item("other", 7, MEDIUM)>>)),
     Advisory(TRUE, <<Tok("prose"), Tok("nl"), MD_FULL>>),
     Advisory(TRUE, InlineReply(<<Tok("deep")>>))}   \* parse_and_validate raises

Inputs ==
    {Input(FALSE, ParsedLog(FALSE, <<>>), Advisory(FALSE, <<>>))}
    \cup {Input(TRUE, l, a) : l \in AnalyzeLogs, a \in Advisories}

\* the names tempfile.NamedTemporaryFile can give to a file of app/reports
TempNames == {"tmpa.csv", "tmpb.csv"}

AnalyzeInit ==
    /\ areq \in [Requests -> Inputs]
    /\ configured \in BOOLEAN
    /\ apc = [r \in Requests |-> "read"]
    /\ aclassified = [r \in Requests |-> <<>>]
    /\ acalls = [r \in Requests |-> 0]
    /\ avalidated = [r \in Requests |-> <<>>]
    /\ acorrelated = [r \in Requests |-> <<>>]
    /\ areport = [r \in Requests |-> NoReport]
    /\ astatus = [r \in Requests |-> 0]
    /\ acsv = [r \in Requests |-> ""]
    /\ report_files = {}
    /\ aoverlap = FALSE
    /\ nmsg = <<>> /\ nout1 = <<>> /\ nout2 = <<>> /\ npc = "idle"
    /\ plines = <<>> /\ entries = <<>> /\ last_entry = NoEntry /\ ppc = "idle"
    /\ problems = <<>> /\ merged = <<>> /\ mpc = "idle"
    /\ rcfg = <<>> /\ reply = <<>> /\ clean_response = <<>> /\ rresult = <<>>
    /\ rstrategy = "none" /\ rpc = "idle"
    /\ centries = <<>> /\ grouped = <<>> /\ classified = <<>> /\ cpc = "idle"

\* a handler that would keep `classified` in a variable of the module, where
\* request 1 wrote it
ClassifiedShared(r) == aclassified[1]

\* the local `classified` of the request
ClassifiedOf(r) == aclassified[r]

\* classified = classify_errors(group_by_normalized_message(entries))
Classified(r) == classify_errors(group_by_normalized_message(areq[r].log.entries))

\* another request is between its awaits
Overlaps(r) == \E q \in Requests \ {r} : apc[q] \in {"parse", "await"}

\* a handler that would call the advisory service again after a failure
AttemptsWithRetry(advisory) == IF advisory.ok THEN 1 ELSE 2

\* response = await gigachat.get_completion(prompt): one call, whatever it
\* answers
Attempts(advisory) == 1

\* content = await file.read() returns
ReadFile(r) ==
    /\ apc[r] = "read"
    /\ areq[r].readable
    /\ apc' = [apc EXCEPT ![r] = "parse"]
    /\ aoverlap' = (aoverlap \/ Overlaps(r))
    /\ UNCHANGED <<areq, configured, aclassified, acalls, avalidated, acorrelated, areport,
                   astatus, acsv, report_files, nvars, pvars, mvars, rvars, cvars>>

\* content = await file.read() raises: HTTPException(status_code=400)
ReadFails(r) ==
    /\ apc[r] = "read"
    /\ ~areq[r].readable
    /\ apc' = [apc EXCEPT ![r] = "failed"]
    /\ astatus' = [astatus EXCEPT ![r] = 400]
    /\ aoverlap' = (aoverlap \/ Overlaps(r))
    /\ UNCHANGED <<areq, configured, aclassified, acalls, avalidated, acorrelated, areport,
                   acsv, report_files, nvars, pvars, mvars, rvars, cvars>>

\* LogParser.parse_log(log_content) raises ValueError, which nothing catches
ParseRaises(r) ==
    /\ apc[r] = "parse"
    /\ areq[r].log.bad_ts
    /\ apc' = [apc EXCEPT ![r] = "failed"]
    /\ astatus' = [astatus EXCEPT ![r] = 500]
    /\ aoverlap' = (aoverlap \/ Overlaps(r))
    /\ UNCHANGED <<areq, configured, aclassified, acalls, avalidated, acorrelated, areport,
                   acsv, report_files, nvars, pvars, mvars, rvars, cvars>>

\* parse, group, classify, build the prompt; GigaChatClient() raises
\* RuntimeError outside the try block: the credentials are not set
ClientNotConfigured(r) ==
    /\ apc[r] = "parse"
    /\ ~areq[r].log.bad_ts
    /\ ~configured
    /\ aclassified' = [aclassified EXCEPT ![r] = Classified(r)]
    /\ apc' = [apc EXCEPT ![r] = "failed"]
    /\ astatus' = [astatus EXCEPT ![r] = 500]
    /\ aoverlap' = (aoverlap \/ Overlaps(r))
    /\ UNCHANGED <<areq, configured, acalls, avalidated, acorrelated, areport,
                   acsv, report_files, nvars, pvars, mvars, rvars, cvars>>

\* parse, group, classify, build the prompt, make the client and call
\* gigachat.get_completion(prompt): the request waits for the answer
CallAdvisory(r) ==
    /\ apc[r] = "parse"
    /\ ~areq[r].log.bad_ts
    /\ configured
    /\ aclassified' = [aclassified EXCEPT ![r] = Classified(r)]
    /\ acalls' = [acalls EXCEPT ![r] = @ + Attempts(areq[r].advisory)]
    /\ apc' = [apc EXCEPT ![r] = "await"]
    /\ aoverlap' = (aoverlap \/ Overlaps(r))
    /\ UNCHANGED <<areq, configured, avalidated, acorrelated, areport, astatus,
                   acsv, report_files, nvars, pvars, mvars, rvars, cvars>>

\* get_completion raises: HTTPException(status_code=502)
AdvisoryFails(r) ==
    /\ apc[r] = "await"
    /\ ~areq[r].advisory.ok
    /\ apc' = [apc EXCEPT ![r] = "failed"]
    /\ astatus' = [astatus EXCEPT ![r] = 502]
    /\ aoverlap' = (aoverlap \/ Overlaps(r))
    /\ UNCHANGED <<areq, configured, aclassified, acalls, avalidated, acorrelated, areport,
                   acsv, report_files, nvars, pvars, mvars, rvars, cvars>>

\* get_completion returns a text and parse_and_validate raises
RecoveryRaises(r) ==
    /\ apc[r] = "await"
    /\ areq[r].advisory.ok
    /\ parse_and_validate(areq[r].advisory.text).status = "raised"
    /\ apc' = [apc EXCEPT ![r] = "failed"]
    /\ astatus' = [astatus EXCEPT ![r] = 500]
    /\ aoverlap' = (aoverlap \/ Overlaps(r))
    /\ UNCHANGED <<areq, configured, aclassified, acalls, avalidated, acorrelated, areport,
                   acsv, report_files, nvars, pvars, mvars, rvars, cvars>>

\* get_completion returns a text: recovery, fallback, rank correlation,
\* merge, the report and the CSV file under a name no file of app/reports has
Report200(r) ==
    /\ apc[r] = "await"
    /\ areq[r].advisory.ok
    /\ \E res \in {AfterAdvisory(ClassifiedOf(r), areq[r].advisory.text)} :
           /\ res.status = 200
           /\ avalidated' = [avalidated EXCEPT ![r] = res.validated]
           /\ acorrelated' = [acorrelated EXCEPT ![r] = res.correlated]
           /\ areport' = [areport EXCEPT ![r] = res.report]
           /\ \E name \in TempNames \ {f.name : f \in report_files} :
                /\ acsv' = [acsv EXCEPT ![r] = name]
                /\ report_files' = report_files \cup
                                     {[name |-> name, rows |-> res.report.problems]}
    /\ apc' = [apc EXCEPT ![r] = "done"]
    /\ astatus' = [astatus EXCEPT ![r] = 200]
    /\ aoverlap' = (aoverlap \/ Overlaps(r))
    /\ UNCHANGED <<areq, configured, aclassified, acalls,
                   nvars, pvars, mvars, rvars, cvars>>

AnalyzeNext ==
    \E r \in Requests :
        \/ ReadFile(r) \/ ReadFails(r) \/ ParseRaises(r) \/ ClientNotConfigured(r)
        \/ CallAdvisory(r) \/ AdvisoryFails(r) \/ RecoveryRaises(r) \/ Report200(r)
SpecAnalyze == AnalyzeInit /\ [][AnalyzeNext]_vars

(***************************************************************************)
(* Claims                                                                  *)
(***************************************************************************)
\* C1: normalize_message is idempotent: normalizing an already normalized
\* message returns it unchanged, also for messages that start with a
\* preserved "org.<dotted name>:" prefix.
C1_Idempotent == npc = "twice" => nout2 = nout1

\* The continuation lines that C2 and C3 give to the header at line i: the
\* frame lines between it and the next header line of any level. This is the
\* statement of the claims; parse_log itself (ParseHeaderSkipped, ParseFrame)
\* leaves last_entry alone at a skipped header and goes on appending.
RECURSIVE FramesUpToNextHeader(_, _)
FramesUpToNextHeader(ls, i) ==
    IF i >= Len(ls) \/ ls[i + 1].kind = "header" THEN <<>>
    ELSE (IF ls[i + 1].kind = "frame" THEN <<ls[i + 1].text>> ELSE <<>>)
             \o FramesUpToNextHeader(ls, i + 1)

\* C2: a stack-frame line that follows a header with a level outside
\* ERROR_LEVELS is never appended to an output record: no returned record
\* holds more fragments than its own header's message and frames.
C2_NoFramesOfFilteredHeaders ==
    ppc = "done" =>
        /\ Len(entries) = Len(Retained(plines))
        /\ \A j \in 1..Len(entries) :
             Len(entries[j].message) <= 1 + Len(FramesUpToNextHeader(plines, Retained(plines)[j]))

\* C3: a retained header followed by k continuation lines yields exactly one
\* record, whose message is the header's message followed by the k lines in
\* input order; the continuation lines are no records of their own.
C3_HeaderAndFramesFoldIntoOneRecord ==
    ppc = "done" =>
        /\ Len(entries) = Len(Retained(plines))
        /\ \A j \in 1..Len(entries) :
             LET i == Retained(plines)[j]
             IN  entries[j].message = <<plines[i].text>> \o FramesUpToNextHeader(plines, i)

\* The list that C4 expects: that of the first strategy, in the order strict
\* decode, repair decode, per-object salvage, that yields at least one record;
\* the prose fallback on the raw reply when none does. This is the statement
\* of the claim; parse_and_validate itself (StrictReturns, RepairReturns)
\* returns the list of the first strategy that does not fail, empty or not.
FirstStrategyWithRecords(response) ==
    LET c == clean_json_response(response)
    IN  IF StrictDecode(c).status = "ok" /\ StrictDecode(c).reports # <<>>
        THEN StrictDecode(c).reports
        ELSE IF RepairDecode(c).status = "ok" /\ RepairDecode(c).reports # <<>>
        THEN RepairDecode(c).reports
        ELSE IF Salvage(c) # <<>> THEN Salvage(c)
        ELSE parse_markdown(response)

\* C4: parse_and_validate returns the list of the first strategy (strict,
\* repair, salvage, prose) that yields at least one record; a strategy with
\* zero records does not end the chain, the prose fallback then runs on the
\* raw reply.
C4_FirstStrategyWithRecords == rpc = "done" => rresult = FirstStrategyWithRecords(reply)

\* the reply is a list written without comments and without a trailing comma
PlainList == rcfg.layout # "none" /\ rcfg.cpos = 0 /\ ~rcfg.trailing
WellFormed(t) == t.kind \in {"obj", "pos"} /\ t.shape # "innercomma"

\* The records that C5 expects of a list: one per item that validates, the
\* invalid items left out. This is the statement of the claim; the strict
\* stage itself (StrictFails) builds all the records or none.
ReportsOfValidItems(items) == MapSeq(Report, SelectSeq(items, IsValidItem))

\* C5: of a list with valid items (keyed objects, positional lists of four)
\* and items that cannot be validated (missing field, non-numeric frequency)
\* exactly the valid items are returned, in their order.
C5_ValidSiblingsSurvive ==
    (/\ rpc = "done" /\ PlainList
     /\ \A i \in 1..Len(rcfg.items) :
            WellFormed(rcfg.items[i]) /\ (IsValidItem(rcfg.items[i]) \/ IsInvalidItem(rcfg.items[i]))
     /\ \E i \in 1..Len(rcfg.items) : IsValidItem(rcfg.items[i])
     /\ \E i \in 1..Len(rcfg.items) : IsInvalidItem(rcfg.items[i]))
        => rresult = ReportsOfValidItems(rcfg.items)

\* C6: a list of valid keyed objects that is well-formed except for commas
\* before a closing "]" (after the last item) or "}" (inside an object) is
\* recovered with every record, by the repair or the salvage stage.
C6_TrailingCommasRecovered ==
    (/\ rpc = "done" /\ rcfg.layout # "none" /\ rcfg.cpos = 0 /\ rcfg.items # <<>>
     /\ \A i \in 1..Len(rcfg.items) :
            rcfg.items[i].kind = "obj" /\ rcfg.items[i].shape \in {"plain", "innercomma"}
            /\ ~Invalid(rcfg.items[i])
     /\ (rcfg.trailing \/ \E i \in 1..Len(rcfg.items) : rcfg.items[i].shape = "innercomma"))
        => rresult = MapSeq(Report, rcfg.items) /\ rstrategy \in {"repair", "salvage"}

\* C7: of a multi-line reply with a valid list and a "//" comment line, each
\* comment is removed up to the end of its own line only, and every item of
\* the list is returned, as without the comment line.
C7_CommentLinesRemoved ==
    (/\ rpc = "done" /\ rcfg.layout = "lines" /\ rcfg.cpos > 0 /\ ~rcfg.trailing
     /\ \A i \in 1..Len(rcfg.items) : WellFormed(rcfg.items[i]) /\ IsValidItem(rcfg.items[i]))
        => rresult = ReportsOfValidItems(rcfg.items)

\* C8: parse_and_validate is total: no exception leaves it, for any reply.
C8_NeverRaises == rpc # "raised"

\* C9: merging two records with the same message whose recommendations are
\* "1. Proverit' tablicu X" and "Prover'te tablicu X" leaves a single step.
C9_ImperativeFormsCollapse ==
    (/\ mpc = "done" /\ Len(problems) = 2
     /\ Strip(problems[1].message) = Strip(problems[2].message)
     /\ problems[1].recommendation = REC_CHECK_INF
     /\ problems[2].recommendation = REC_CHECK_IMP)
        => Len(merged) = 1 /\ Len(merged[1].recommendation) = 1

\* C10: every returned record has a non-empty recommendation, also a record
\* whose message occurs once and a record whose recommendation text is empty
\* or holds only separators.
C10_RecommendationNeverEmpty ==
    mpc = "done" => \A i \in 1..Len(merged) : ~IsEmptyText(merged[i].recommendation)

\* the input records with the trimmed message of the record r
SameMessage(ps, r) == SelectSeq(ps, LAMBDA pr : Strip(pr.message) = Strip(r.message))

\* C11: each returned record has the sum of the frequencies of all input
\* records with its trimmed message, so the total frequency of the output is
\* the total of the input.
C11_FrequencyIsGroupSum ==
    mpc = "done" =>
        /\ \A i \in 1..Len(merged) :
             merged[i].frequency
                = SumSeq(MapSeq(LAMBDA pr : pr.frequency, SameMessage(problems, merged[i])))
        /\ SumSeq(MapSeq(LAMBDA pr : pr.frequency, merged))
                = SumSeq(MapSeq(LAMBDA pr : pr.frequency, problems))

\* C11 case: three records of two messages, the two of one message (frequencies
\* 1 and 2) merged into one record
C11_Witness ==
    /\ mpc = "done" /\ Len(problems) = 3 /\ Len(merged) = 2
    /\ \E i \in 1..2 : merged[i].frequency = 3 /\ Len(SameMessage(problems, merged[i])) = 2

\* the order low < medium < high of the criticalities
CritLevels == {LOW, MEDIUM, HIGH}
CritRank(c) == CASE c = LOW -> 0 [] c = MEDIUM -> 1 [] c = HIGH -> 2

\* C12: the criticality of each returned record is at least the criticality
\* of every input record with its trimmed message, in the order
\* low < medium < high.
C12_CriticalityNotLowered ==
    mpc = "done" =>
        \A i \in 1..Len(merged) :
            \A j \in 1..Len(problems) :
                (/\ Strip(problems[j].message) = Strip(merged[i].message)
                 /\ problems[j].criticality \in CritLevels)
                    => /\ merged[i].criticality \in CritLevels
                       /\ CritRank(merged[i].criticality) >= CritRank(problems[j].criticality)

\* C12 case: a group whose first record is low and whose second is high is
\* merged into a high record
C12_Witness ==
    /\ mpc = "done" /\ Len(problems) = 2 /\ Len(merged) = 1
    /\ problems[1].criticality = LOW /\ problems[2].criticality = HIGH
    /\ merged[1].criticality = HIGH

\* C13: one record per distinct trimmed message: as many records as distinct
\* trimmed messages, no two records with the same trimmed message, records
\* with different trimmed messages never merged, also at equal frequencies.
C13_OneRecordPerMessage ==
    mpc = "done" =>
        /\ Len(merged) = Cardinality({Strip(problems[j].message) : j \in 1..Len(problems)})
        /\ \A i, k \in 1..Len(merged) :
               i # k => Strip(merged[i].message) # Strip(merged[k].message)
        /\ {Strip(merged[i].message) : i \in 1..Len(merged)}
               = {Strip(problems[j].message) : j \in 1..Len(problems)}

\* C13 case: two records with different messages and the same frequency stay
\* two records
C13_Witness ==
    /\ mpc = "done" /\ Len(problems) = 2 /\ Len(merged) = 2
    /\ problems[1].frequency = problems[2].frequency
    /\ Strip(problems[1].message) # Strip(problems[2].message)

\* the levels of the records of a group
LevelsOf(g) == {g.entries[j].entry.level : j \in 1..Len(g.entries)}
GroupSize(g) == SumSeq(MapSeq(LAMBDA r : r.count, g.entries))

\* C14: a group with an ERROR record is high at every frequency; a group
\* whose highest level is WARN is high exactly when it has more than 50
\* records and medium otherwise; INFO/TRACE/DEBUG groups are low at every
\* frequency.
C14_CriticalityByLevelAndSize ==
    cpc = "classified" =>
        /\ Len(classified) = Len(grouped)
        /\ \A k \in 1..Len(grouped) :
            LET L == LevelsOf(grouped[k])
                c == classified[k].criticality
            IN  /\ "ERROR" \in L => c = HIGH
                /\ ("ERROR" \notin L /\ "WARN" \in L)
                      => c = (IF GroupSize(grouped[k]) > 50 THEN HIGH ELSE MEDIUM)
                /\ L \subseteq {"INFO", "TRACE", "DEBUG"} => c = LOW

\* C14 case: a WARN group of 51 records is high, next to a WARN group of 50
\* records that is medium
C14_Witness ==
    /\ cpc = "classified" /\ Len(classified) = 2
    /\ \E k \in 1..2 : /\ LevelsOf(grouped[k]) = {"WARN"} /\ GroupSize(grouped[k]) = 51
                       /\ classified[k].criticality = HIGH
    /\ \E k \in 1..2 : /\ LevelsOf(grouped[k]) = {"WARN"} /\ GroupSize(grouped[k]) = 50
                       /\ classified[k].criticality = MEDIUM

\* C15: for a group built from records of parse_log (levels of
\* ERROR_LEVELS) determine_most_critical_level returns a level that is in the
\* group; the default 'INFO' is never returned.
C15_LevelIsInGroup ==
    (/\ cpc = "classified"
     /\ \A j \in 1..Len(centries) : centries[j].entry.level \in ERROR_LEVELS)
        => \A k \in 1..Len(grouped) : classified[k].level \in LevelsOf(grouped[k])

\* the reply of the request yields no record: parse_and_validate returned []
NothingRecovered(r) == parse_and_validate(areq[r].advisory.text) = Outcome("ok", <<>>)

\* C16: when parse_and_validate returns an empty list, the report of
\* analyze_log has, for each ClassifiedError, exactly one record with that
\* error's message, frequency and criticality and the placeholder
\* recommendation, in whatever order the ClassifiedErrors were produced.
C16_FallbackReportsEveryError ==
    \A r \in Requests :
        (apc[r] = "done" /\ NothingRecovered(r)) =>
            \A k \in 1..Len(aclassified[r]) :
                Cardinality({i \in 1..Len(areport[r].problems) :
                    LET p == areport[r].problems[i]
                    IN  /\ p.message = aclassified[r][k].message
                        /\ p.frequency = aclassified[r][k].frequency
                        /\ p.criticality = aclassified[r][k].criticality
                        /\ p.recommendation = FALLBACK_REC}) = 1

\* a is lower than b in the order low < medium < high; a criticality outside
\* the three levels is neither lower nor higher than any other
Lower(a, b) == a \in CritLevels /\ b \in CritLevels /\ CritRank(a) < CritRank(b)

\* cls[j] can stand at place i when cls is put in descending order of frequency
AtDescendingPlace(cls, j, i) ==
    /\ Cardinality({x \in 1..Len(cls) : cls[x].frequency > cls[j].frequency}) < i
    /\ i <= Cardinality({x \in 1..Len(cls) : cls[x].frequency >= cls[j].frequency})

\* C17: after the rank correlation, record i (i at most the number of
\* ClassifiedErrors) has the frequency and the example message of the i-th
\* ClassifiedError in descending order of frequency, and a criticality lower
\* neither than its own before the step nor than that error's; the records
\* after them are unchanged.
C17_RankCorrelation ==
    \A r \in Requests :
        apc[r] = "done" =>
            /\ Len(acorrelated[r]) = Len(avalidated[r])
            /\ \A i \in 1..Len(acorrelated[r]) :
                 IF i <= Len(aclassified[r])
                 THEN \E j \in 1..Len(aclassified[r]) :
                        /\ AtDescendingPlace(aclassified[r], j, i)
                        /\ acorrelated[r][i].frequency = aclassified[r][j].frequency
                        /\ acorrelated[r][i].original_message
                             = SomeText(aclassified[r][j].original_message)
                        /\ ~Lower(acorrelated[r][i].criticality, avalidated[r][i].criticality)
                        /\ ~Lower(acorrelated[r][i].criticality, aclassified[r][j].criticality)
                 ELSE acorrelated[r][i] = avalidated[r][i]

\* C17 case: three recovered records meet two ClassifiedErrors of frequencies
\* 1 and 3; the first record takes the frequency 3 and is raised from medium
\* to high, the third is left as it was
C17_Witness ==
    \E r \in Requests :
        /\ apc[r] = "done"
        /\ Len(aclassified[r]) = 2 /\ Len(avalidated[r]) = 3
        /\ aclassified[r][1].frequency = 1 /\ aclassified[r][2].frequency = 3
        /\ acorrelated[r][1].frequency = 3
        /\ avalidated[r][1].criticality = MEDIUM /\ acorrelated[r][1].criticality = HIGH
        /\ acorrelated[r][3] = avalidated[r][3]

\* the request has been answered
Finished(r) == apc[r] \in {"done", "failed"}

\* a step after the advisory call has run for the request: recovery or
\* fallback, rank correlation, merge, the report or its CSV file
LaterStepRan(r) ==
    \/ avalidated[r] # <<>> \/ acorrelated[r] # <<>> \/ areport[r] # NoReport
    \/ acsv[r] # "" \/ astatus[r] = 200 \/ \E f \in report_files : f.name = acsv[r]

\* the later steps run only after the call has returned a text, and a failed
\* call ends the request with 502 and without any of them
OnlyAfterText(r) ==
    /\ LaterStepRan(r) => (acalls[r] = 1 /\ areq[r].advisory.ok)
    /\ (Finished(r) /\ acalls[r] >= 1 /\ ~areq[r].advisory.ok)
          => (astatus[r] = 502 /\ ~LaterStepRan(r))

\* C18 (as stated): in every run of analyze_log the advisory service is
\* called exactly once, the later steps run only after the call has returned
\* a text, and a failed call ends the request with HTTP 502 and no later step.
C18_CalledExactlyOnce ==
    \A r \in Requests : (Finished(r) => acalls[r] = 1) /\ OnlyAfterText(r)

\* the run gets as far as the call: the file is read, parse_log does not
\* raise and the advisory client can be made
ReachesCall(r) == areq[r].readable /\ ~areq[r].log.bad_ts /\ configured

\* C18 (amended): the advisory service is called at most once in a run, and
\* exactly once in every run that gets as far as the call; a run that ends
\* before the call is answered with 400 or 500 and runs no later step; the
\* later steps run only after the call has returned a text, and a failed call
\* ends the request with HTTP 502 and no later step.
C18_CalledAtMostOnce ==
    \A r \in Requests :
        /\ acalls[r] <= 1
        /\ Finished(r) => (acalls[r] = 1 <=> ReachesCall(r))
        /\ (Finished(r) /\ acalls[r] = 0) => (astatus[r] \in {400, 500} /\ ~LaterStepRan(r))
        /\ OnlyAfterText(r)

\* C18 case: one request was answered 200 with a report of records after one
\* call, the other 502 after one call that failed
C18_Witness ==
    \E r, q \in Requests :
        /\ astatus[r] = 200 /\ acalls[r] = 1 /\ areport[r].total_problems > 0
        /\ astatus[q] = 502 /\ acalls[q] = 1 /\ ~LaterStepRan(q)

\* what a request is answered when it runs alone: [status, report]
AloneAnswer(res) == [status |-> res.status, report |-> res.report]
Alone(input, conf) ==
    IF ~input.readable THEN [status |-> 400, report |-> NoReport]
    ELSE IF input.log.bad_ts \/ ~conf THEN [status |-> 500, report |-> NoReport]
    ELSE IF ~input.advisory.ok THEN [status |-> 502, report |-> NoReport]
    ELSE AloneAnswer(AfterAdvisory(classify_errors(group_by_normalized_message(
                                        input.log.entries)), input.advisory.text))

\* C19: two requests that interleave at their awaits do not affect each
\* other: every request is answered as it is when run alone on its log and
\* its advisory reply, its ClassifiedErrors come from its own log, and its CSV
\* file holds its own records under a name the other request does not use.
C19_RequestsIndependent ==
    /\ \A r \in Requests :
          /\ Finished(r) =>
                [status |-> astatus[r], report |-> areport[r]] = Alone(areq[r], configured)
          /\ aclassified[r] \in
                {<<>>, classify_errors(group_by_normalized_message(areq[r].log.entries))}
          /\ astatus[r] = 200 =>
                [name |-> acsv[r], rows |-> areport[r].problems] \in report_files
    /\ \A r, q \in Requests : (r # q /\ astatus[r] = 200 /\ astatus[q] = 200) => acsv[r] # acsv[q]

\* C19 case: both requests were answered 200 with different reports of
\* records, one of them having run between the awaits of the other
C19_Witness ==
    /\ aoverlap
    /\ \A r \in Requests : astatus[r] = 200 /\ areport[r].total_problems > 0
    /\ areport[1] # areport[2]
    /\ aclassified[1] # aclassified[2]

\* the groups that hold the record
GroupsOf(rec) ==
    {k \in 1..Len(grouped) : \E j \in 1..Len(grouped[k].entries) : grouped[k].entries[j] = rec}

\* the fragments user_id=<value>, the value made of letters, digits, '_', '-'
IdPairs == {"user_id=123", "user_id=456", "user_id=12345678"}
\* the two messages differ at most in the values of such pairs
DifferOnlyInIdValue(m1, m2) ==
    /\ Len(m1) = Len(m2)
    /\ \A i \in 1..Len(m1) : m1[i] = m2[i] \/ {m1[i], m2[i]} \subseteq IdPairs
\* the records of the list whose message is m up to the values of id pairs
Variants(m) ==
    {j \in 1..Len(centries) : DifferOnlyInIdValue(centries[j].entry.message, m)}

\* C22: retained records whose messages differ only in the value of a
\* key=value pair whose key contains "id" have the same canonical key, are
\* in one group, and classify_errors reports them as one ClassifiedError
\* whose frequency is the number of those records.
C22_IdVariantsAreOneError ==
    (/\ cpc = "classified"
     /\ \A j \in 1..Len(centries) : centries[j].entry.level \in ERROR_LEVELS) =>
        \A i \in 1..Len(centries) :
            LET m == centries[i].entry.message
            IN  (\E x \in 1..Len(m) : m[x] \in IdPairs) =>
                  /\ \A j \in Variants(m) :
                        normalize_message(centries[j].entry.message) = normalize_message(m)
                  /\ \E k \in 1..Len(grouped) :
                        /\ \A j \in Variants(m) : k \in GroupsOf(centries[j])
                        /\ classified[k].frequency
                              = SumSeq([j \in 1..Len(centries) |->
                                          IF j \in Variants(m) THEN centries[j].count ELSE 0])

\* C23: the example string of classify_errors is re-split losslessly by the
\* merge: splitting ClassifiedError.original_message with the separators of
\* group_problems_by_frequency gives exactly the distinct examples the
\* classifier selected, at most five, in first-seen order, none of them cut,
\* split in two or lost.
C23_ExamplesResplitLosslessly ==
    cpc = "classified" =>
        \A k \in 1..Len(classified) :
            /\ Len(Examples(grouped[k].entries)) <= MAX_EXAMPLES
            /\ SplitOriginal(classified[k].original_message)
                  = Examples(grouped[k].entries)

\* C24: a line with a retained level that matches the header pattern and whose
\* timestamp is no valid date and time makes parse_log fail for the whole
\* input: the call raises at that line and returns nothing, the line is not
\* skipped (no later line is read) and no record is made of it.
C24_BadTimestampRaises ==
    \A i \in 1..Len(plines) :
        (IsRetained(plines[i]) /\ plines[i].timestamp = TS_INVALID) =>
            /\ ppc = "raised"
            /\ i = Len(plines)
            /\ Len(entries) = Len(Retained(plines)) - 1
            /\ \A k \in 1..Len(entries) : entries[k].timestamp # TS_INVALID
            /\ last_entry # NoEntry => last_entry.timestamp # TS_INVALID
C24_Witness ==
    /\ ppc = "raised"
    /\ Len(plines) = 3
    /\ plines[1] = Header("ERROR", TS_VALID, "boom")
    /\ plines[2] = Header("WARN", TS_VALID, "slow")
    /\ plines[3] = Header("ERROR", TS_INVALID, "boom")
    /\ Len(entries) = 2

\* C25: when parse_log returns, its output holds exactly one record per header
\* line with a retained level, in input order; every record has a level of
\* the retained set; the record opened by the last such header is in the
\* output (flushed at the end of the input).
C25_OneRecordPerRetainedHeader ==
    ppc = "done" =>
        LET kept == Retained(plines)
        IN  /\ Len(entries) = Len(kept)
            /\ \A k \in 1..Len(entries) :
                  /\ entries[k].level \in ERROR_LEVELS
                  /\ entries[k].level = plines[kept[k]].level
                  /\ entries[k].timestamp = plines[kept[k]].timestamp
                  /\ entries[k].thread = plines[kept[k]].thread
                  /\ entries[k].class_name = plines[kept[k]].class_name
                  /\ Head(entries[k].message) = plines[kept[k]].text
            /\ kept # <<>> =>
                  Head(entries[Len(entries)].message) = plines[kept[Len(kept)]].text
C25_Witness ==
    /\ ppc = "done"
    /\ plines = <<Header("WARN", TS_VALID, "slow"), Header("INFO", TS_VALID, "boom"),
                  Frame("at c.A.run(A.java:1)"), Header("ERR", TS_VALID, "boom")>>
    /\ Len(entries) = 2
    /\ entries[2].level = "ERR"

\* C30: a record is never modified after it has been appended to the output
\* list.  At every step of parse_log the list keeps the records it has and
\* grows at most by the open record; while the loop runs the list holds the
\* records of the earlier retained headers only, the open record is not in
\* it; a continuation line changes the message of the open record and
\* nothing else; a line that is neither header nor continuation changes
\* neither the open record nor the list.
C30_AppendedRecordsNeverChange ==
    [][/\ Len(entries') >= Len(entries)
       /\ SubSeq(entries', 1, Len(entries)) = entries
       /\ entries' # entries => entries' = Append(entries, last_entry)
       /\ ppc = "loop" =>
             Len(entries) = Len(Retained(plines)) - (IF last_entry # NoEntry THEN 1 ELSE 0)
       /\ Len(plines') = Len(plines) + 1 =>
             LET line == plines'[Len(plines')]
             IN  /\ line.kind \in {"frame", "other"} => entries' = entries
                 /\ (line.kind = "frame" /\ last_entry # NoEntry) =>
                       last_entry' = [last_entry EXCEPT !.message = Append(@, line.text)]
                 /\ (line.kind = "other" \/ last_entry = NoEntry) /\ line.kind # "header" =>
                       last_entry' = last_entry]_vars
C30_Witness ==
    /\ ppc = "loop"
    /\ plines = <<Header("ERROR", TS_VALID, "boom"), Header("WARN", TS_VALID, "slow"),
                  Frame("at c.A.run(A.java:1)"), Other("... 12 more")>>
    /\ Len(entries) = 1
    /\ entries[1].message = <<"boom">>
    /\ last_entry.message = <<"slow", "at c.A.run(A.java:1)">>

\* an item written as a valid ProblemReport object: the required fields, the
\* frequency an integer
IsRecordObject(t) == t.kind = "obj" /\ t.shape = "plain" /\ t.freq.t = "int"

\* C26: for a reply that is a valid list of ProblemReport objects wrapped in
\* prose and code-fence markers, parse_and_validate returns exactly the
\* records of the list, one per item and in order, the message and the
\* frequency of every item unchanged.
C26_WrappedListRecovered ==
    (/\ rpc = "done"
     /\ rcfg.layout \in {"fenced", "linked"}
     /\ rcfg.items # <<>> /\ ~rcfg.trailing
     /\ \A i \in 1..Len(rcfg.items) : IsRecordObject(rcfg.items[i])) =>
        /\ Len(rresult) = Len(rcfg.items)
        /\ \A i \in 1..Len(rresult) :
              /\ rresult[i].message = rcfg.items[i].msg
              /\ rresult[i].frequency = rcfg.items[i].freq.n

\* the reply holds no "[" ... "]" at all and parse_and_validate returned
NoSliceReturned == rpc = "done" /\ rcfg.layout = "none"
\* one record per heading, in order; the frequency is the number written
\* after the frequency label, 1 when there is none
OnePerHeading ==
    /\ Len(rresult) = Len(rcfg.mds)
    /\ \A i \in 1..Len(rresult) :
          /\ rcfg.mds[i].msg # "" => rresult[i].message = rcfg.mds[i].msg
          /\ rresult[i].frequency = (IF rcfg.mds[i].freq.n > 0 THEN rcfg.mds[i].freq.n ELSE 1)

\* C27: for a reply with no "[" ... "]" slice the prose fallback
\* returns one record per heading, in order; the frequency of a record is the
\* number after the frequency label of its section or 1; its criticality is
\* the word after the criticality label, or the low criticality when absent.
C27_ProseFallbackRecords ==
    NoSliceReturned =>
        /\ OnePerHeading
        /\ \A i \in 1..Len(rresult) :
              rresult[i].criticality = (IF rcfg.mds[i].crit # "" THEN rcfg.mds[i].crit ELSE LOW)

\* the first step of every key, in order of appearance, the key being the
\* whole of the joined stems of the step
RECURSIVE KeptByWholeKey(_, _, _)
KeptByWholeKey(steps, seen, acc) ==
    IF Len(steps) = 0 THEN acc
    ELSE LET key == WholeKey(JoinedStems(steps[1]))
         IN  IF key \in seen THEN KeptByWholeKey(Tail(steps), seen, acc)
             ELSE KeptByWholeKey(Tail(steps), seen \cup {key}, Append(acc, steps[1]))
\* the trimmed messages of the input, in the order of the output
MergeKeys == Distinct(MapSeq(LAMBDA pr : Strip(pr.message), problems), <<>>)
\* the input records of the k-th output record
ItemsOf(k) == SelectSeq(problems, LAMBDA pr : Strip(pr.message) = MergeKeys[k])

\* C28: in a group of two or more records the merged recommendation holds
\* exactly one step per distinct dedup key, the key computed from the whole
\* step text (lower case, trailing punctuation stripped, every word stemmed):
\* the first-seen step of each key is kept, in the original order, two steps
\* are collapsed only when their keys are equal, and the kept steps are
\* numbered 1., 2., ...
C28_OneStepPerWholeKey ==
    mpc = "done" =>
        \A k \in 1..Len(merged) :
            Len(ItemsOf(k)) >= 2 =>
                LET steps == Flatten(MapSeq(LAMBDA it : StepsOf(it.recommendation), ItemsOf(k)))
                    kept  == KeptByWholeKey(steps, {}, <<>>)
                IN  kept # <<>> =>
                        merged[k].recommendation = [idx \in 1..Len(kept) |-> Part(idx, kept[idx])]

\* C29: group_problems_by_frequency is idempotent: applied to its own output
\* it returns a list equal to that output, field by field.
C29_MergeIdempotent ==
    mpc = "done" =>
        \E again \in {group_problems_by_frequency(merged)} :
            /\ Len(again) = Len(merged)
            /\ \A k \in 1..Len(merged) :
                  /\ again[k].message = merged[k].message
                  /\ again[k].frequency = merged[k].frequency
                  /\ again[k].original_message = merged[k].original_message
                  /\ again[k].criticality = merged[k].criticality
                  /\ again[k].recommendation = merged[k].recommendation
                  /\ again[k].root_cause = merged[k].root_cause
                  /\ again[k].info_needed = merged[k].info_needed
C29_Witness ==
    /\ mpc = "done"
    /\ Len(problems) = 3 /\ Len(merged) = 2
    /\ problems[1].message = " m " /\ problems[2].message = "n" /\ problems[3].message = "m"
    /\ problems[1].recommendation = REC_EMPTY /\ problems[3].recommendation = REC_SEPARATORS
    /\ problems[2].recommendation = REC_EMPTY
    /\ merged[1].message = "m" /\ merged[1].recommendation = PLACEHOLDER_REC
    /\ merged[2] = problems[2]

\* C20: the groups partition the records that are no noise: each such record
\* is in the group keyed by its canonical message, once and in encounter
\* order; a record whose canonical message is the sentinel in any case is in
\* no group, and no key is the sentinel.
C20_GroupsPartitionNonNoise ==
    cpc = "grouped" =>
        /\ \A k \in 1..Len(grouped) :
             /\ ~IsNoise(grouped[k].key)
             /\ grouped[k].entries
                   = SelectSeq(centries, LAMBDA r : normalize_message(r.entry.message) = grouped[k].key)
        /\ \A k, l \in 1..Len(grouped) : k # l => grouped[k].key # grouped[l].key
        /\ \A j \in 1..Len(centries) :
             ~IsNoise(normalize_message(centries[j].entry.message))
                => \E k \in 1..Len(grouped) :
                      grouped[k].key = normalize_message(centries[j].entry.message)

\* C21: the group of a record depends on its message only: two records with
\* equal message are in the same group (or both in none), whatever their
\* timestamp, level, thread and class name and whatever came before them.
C21_GroupDependsOnMessageOnly ==
    cpc = "grouped" =>
        \A i, j \in 1..Len(centries) :
            centries[i].entry.message = centries[j].entry.message
                => /\ GroupsOf(centries[i]) = GroupsOf(centries[j])
                   /\ Cardinality(GroupsOf(centries[i])) <= 1

\* C21 case: after a record of another group, two records with the message
\* user_id=123 that differ in timestamp, level, thread and class name are in
\* one group
C21_Witness ==
    /\ cpc = "grouped" /\ Len(centries) = 3 /\ Len(grouped) = 2
    /\ centries[1].entry.message = <<"failed">>
    /\ centries[2].entry.message = <<"user_id=123">>
    /\ centries[3].entry.message = <<"user_id=123">>
    /\ centries[2].entry.timestamp # centries[3].entry.timestamp
    /\ centries[2].entry.level # centries[3].entry.level
    /\ centries[2].entry.thread # centries[3].entry.thread
    /\ centries[2].entry.class_name # centries[3].entry.class_name
    /\ grouped[2].entries = <<centries[2], centries[3]>>

\* C20 case: a record whose message is the sentinel in capitals is dropped,
\* the other record of the list is grouped
C20_Witness ==
    /\ cpc = "grouped" /\ Len(centries) = 2 /\ Len(grouped) = 1
    /\ centries[1].entry.message = <<GENERIC_ERR_UPPER>>
    /\ grouped[1].entries = <<centries[2]>>
====
